---- MODULE Spec2Model ----
(***************************************************************************)
(* Lexicon-based sentiment analysis (src/src/analyzer.js and the earlier   *)
(* src/sentiment-analyzer.js): the lexical scorer SentimentAnalyzer, the   *)
(* structural ContextualAnalyzer built on it, and the module-level         *)
(* instances constructed from the loaded dictionary.                       *)
(*                                                                         *)
(* Texts are sequences of symbols; a symbol stands for a fixed string of   *)
(* characters (a word, a blank, a punctuation mark, an emoji).  Lexicon    *)
(* keys and tokens are sequences of symbols, so "ja" followed by "mais"    *)
(* is the token "jamais", which contains the marker "mais".                *)
(*                                                                         *)
(* Numbers are JavaScript doubles in the source.  Here a number is an      *)
(* integer count of 1/Unit (fixed point, products and quotients rounded    *)
(* to the nearest unit), with the value NaN for "not a number"; a          *)
(* comparison with NaN is false and arithmetic on NaN gives NaN.           *)
(***************************************************************************)
EXTENDS Integers, Sequences, FiniteSets, TLC

VARIABLES
  sentimentDictionary, \* the dictionary the instances were constructed from
  analyzer,            \* the SentimentAnalyzer instance (its fields)
  contextualAnalyzer,  \* the ContextualAnalyzer instance (its fields)
  legacyAnalyzer,      \* the instance of src/sentiment-analyzer.js
  text,                \* the value handed to the next call
  call,                \* the last call that returned ("none" before any)
  basicAnalysis,       \* what SentimentAnalyzer.analyze returned last
  contextualAnalysis,  \* what ContextualAnalyzer.analyze returned last
  legacyAnalysis,      \* what the earlier analyzer returned last
  calls,               \* the values a sequence of calls was made on, in order
  arg,                 \* the argument of the function applied on its own
  out                  \* its value

vars == <<sentimentDictionary, analyzer, contextualAnalyzer, legacyAnalyzer, text,
          call, basicAnalysis, contextualAnalysis, legacyAnalysis, calls, arg, out>>

----------------------------------------------------------------------------
(* Bounds of the model *)

\* longest text typed, in symbols
MaxLen == 4
\* longest sequence of calls followed from the construction on
MaxCalls == 3
\* longest list of sentences segmented on its own
MaxSentences == 8

----------------------------------------------------------------------------
(* Numbers *)

Cent == 12 * 10
Unit == 100 * Cent
Half == Unit \div 2
NaN == 0 - (1000 * Unit)

\* c hundredths
P(c) == c * Cent

IsNaN(x) == x = NaN

RoundDiv(n, d) ==
  IF n >= 0 THEN (2 * n + d) \div (2 * d) ELSE 0 - ((2 * (0 - n) + d) \div (2 * d))

JsAdd(a, b) == IF IsNaN(a) \/ IsNaN(b) THEN NaN ELSE a + b
JsSub(a, b) == IF IsNaN(a) \/ IsNaN(b) THEN NaN ELSE a - b
JsMul(a, b) == IF IsNaN(a) \/ IsNaN(b) THEN NaN ELSE RoundDiv(a * b, Unit)
\* a / n for a count n > 0
JsDivInt(a, n) == IF IsNaN(a) THEN NaN ELSE RoundDiv(a, n)
JsLt(a, b) == ~IsNaN(a) /\ ~IsNaN(b) /\ a < b
JsGt(a, b) == ~IsNaN(a) /\ ~IsNaN(b) /\ a > b
JsGe(a, b) == ~IsNaN(a) /\ ~IsNaN(b) /\ a >= b
JsMin(a, b) == IF IsNaN(a) \/ IsNaN(b) THEN NaN ELSE IF a < b THEN a ELSE b
JsMax(a, b) == IF IsNaN(a) \/ IsNaN(b) THEN NaN ELSE IF a > b THEN a ELSE b
JsAbs(a) == IF IsNaN(a) THEN NaN ELSE IF a < 0 THEN 0 - a ELSE a
\* x || 0
OrZero(x) == IF IsNaN(x) THEN 0 ELSE x

\* parseFloat(x.toFixed(2)): the nearest hundredth, a tie away from zero
ToFixed2(x) ==
  IF IsNaN(x) THEN NaN
  ELSE IF x >= 0 THEN ((x + (Cent \div 2)) \div Cent) * Cent
  ELSE 0 - ((((0 - x) + (Cent \div 2)) \div Cent) * Cent)

RECURSIVE IsqrtBetween(_, _, _)
\* the largest r in lo..hi with r * r <= n
IsqrtBetween(n, lo, hi) ==
  IF lo >= hi THEN lo
  ELSE LET mid == (lo + hi + 1) \div 2
       IN IF mid * mid <= n THEN IsqrtBetween(n, mid, hi)
          ELSE IsqrtBetween(n, lo, mid - 1)
\* Math.sqrt of a value in [0, 1], rounded down to the unit
JsSqrt(x) == IF IsNaN(x) \/ x < 0 THEN NaN ELSE IsqrtBetween(x * Unit, 0, Unit)

----------------------------------------------------------------------------
(* Symbols: the strings texts and lexicon keys are made of *)

Blank == " "
\* the characters /[.,!?;:(){}\[\]\/\\]/ replaces by a blank
Punctuation ==
  {".", ",", "!", "?", ";", ":", "(", ")", "{", "}", "[", "]", "/", "\\"}
\* the characters /[.!?]+/ splits sentences on
SentenceEnd == {".", "!", "?"}
\* symbols /[\p{Emoji}]/gu matches
EmojiSymbols == {"smiley", "thumbsup", "crying"}
\* every other symbol is a run of letters
IsWordSymbol(c) == c # Blank /\ c \notin Punctuation /\ c \notin EmojiSymbols

\* String.length of a symbol (UTF-16 code units; "tres" stands for "très")
CharLen(c) ==
  CASE c = Blank -> 1
    [] c \in Punctuation -> 1
    [] c \in EmojiSymbols -> 2
    [] c \in {"ja", "ne", "je", "me", "se"} -> 2
    [] c \in {"bon", "Bon", "pas", "mal", "peu", "est"} -> 3
    [] c \in {"tres", "mais", "sans", "etre", "fais", "suis"} -> 4
    [] c = "plaindre" -> 8
    [] c \in {"mauvais", "produit"} -> 7
    [] c = "terrible" -> 8
    [] c \in {"excellent", "cependant"} -> 9
    [] c = "constructor" -> 11
    [] OTHER -> 5

\* String.prototype.toLowerCase, symbol by symbol
LowerSymbol(c) == IF c = "Bon" THEN "bon" ELSE c
ToLowerCase(s) == [i \in 1..Len(s) |-> LowerSymbol(s[i])]

RECURSIVE StrLength(_)
\* String.length
StrLength(s) == IF s = <<>> THEN 0 ELSE CharLen(Head(s)) + StrLength(Tail(s))

RECURSIVE TrimStart(_)
TrimStart(s) == IF s # <<>> /\ Head(s) = Blank THEN TrimStart(Tail(s)) ELSE s
RECURSIVE TrimEnd(_)
TrimEnd(s) ==
  IF s # <<>> /\ s[Len(s)] = Blank THEN TrimEnd(SubSeq(s, 1, Len(s) - 1)) ELSE s
\* String.prototype.trim
Trim(s) == TrimEnd(TrimStart(s))

\* whether t occurs in s at position p (1-based)
OccursAt(s, t, p) ==
  /\ p >= 1
  /\ p + Len(t) - 1 <= Len(s)
  /\ \A k \in 1..Len(t) : s[p + k - 1] = t[k]
\* String.prototype.includes
Includes(s, t) == \E p \in 1..(Len(s) + 1) : OccursAt(s, t, p)

\* Array.prototype.join(" ")
RECURSIVE JoinWith(_, _)
JoinWith(parts, sep) ==
  IF parts = <<>> THEN <<>>
  ELSE IF Len(parts) = 1 THEN parts[1]
  ELSE parts[1] \o sep \o JoinWith(Tail(parts), sep)

RECURSIVE SplitFrom(_, _, _, _)
SplitFrom(s, sep, p, cur) ==
  IF p > Len(s) THEN <<cur>>
  ELSE IF OccursAt(s, sep, p)
       THEN <<cur>> \o SplitFrom(s, sep, p + Len(sep), <<>>)
       ELSE SplitFrom(s, sep, p + 1, Append(cur, s[p]))
\* String.prototype.split on a non-empty separator string
Split(s, sep) == SplitFrom(s, sep, 1, <<>>)

\* Array.prototype.includes
InArray(x, arr) == \E i \in 1..Len(arr) : arr[i] = x

\* whether the characters of a symbol start with the prefix
SymbolStartsWith(c, prefix) ==
  CASE prefix = "fai" -> c \in {"fais", "fait", "faire"}
    [] prefix = "s" -> c \in {"sans", "suis", "se"}
    [] prefix = "a" -> c \in {"ai", "avoir"}
    [] OTHER -> FALSE
\* String.prototype.startsWith on a token
StartsWith(word, prefix) ==
  IF word = <<>> THEN FALSE ELSE SymbolStartsWith(Head(word), prefix)

----------------------------------------------------------------------------
(* JavaScript objects used as tables *)

\* an object literal or a parsed JSON object with no own property
EmptyObject == [k \in {} |-> 0]

\* the lowercase property names every plain object inherits from
\* Object.prototype: table[key] !== undefined holds for them although the
\* table has no such entry, and the value read is not a number
ObjectPrototypeKeys == {<<"constructor">>}

\* table[key] !== undefined
HasProp(table, key) == key \in DOMAIN table \/ key \in ObjectPrototypeKeys
\* table[key], where HasProp(table, key)
GetProp(table, key) == IF key \in DOMAIN table THEN table[key] ELSE NaN

\* obj.field || default  (a missing or falsy field gives the default)
FieldOr(obj, field, default) ==
  IF field \in DOMAIN obj /\ obj[field] # 0 THEN obj[field] ELSE default
\* obj.field || {}  for a table, which is truthy even when empty
TableOr(obj, field, default) ==
  IF field \in DOMAIN obj THEN obj[field] ELSE default

----------------------------------------------------------------------------
(* Dictionaries *)

\* the dictionary documented in the README
ReadmeDictionary ==
  [ positiveWords |-> (<<"excellent">> :> P(90)) @@ (<<"bon">> :> P(70)),
    neutralWords |-> (<<"produit">> :> P(50)),
    negativeWords |-> (<<"mauvais">> :> P(30)) @@ (<<"terrible">> :> P(10)),
    compounds |->
      [ modifierPrefixes |->
          (<<"tres">> :> P(180)) @@ (<<"peu">> :> P(50)) @@ (<<"pas">> :> P(0 - 100)),
        idioms |-> (<<"pas", " ", "mal">> :> P(60)),
        negationWords |-> << <<"ne">>, <<"pas">>, <<"sans">>, <<"ja", "mais">> >> ],
    emojiSentiments |->
      ("smiley" :> P(90)) @@ ("thumbsup" :> P(80)) @@ ("crying" :> P(20)),
    config |->
      [ negationWindow |-> 5,
        contextWindow |-> 3,
        segmentCount |-> 3,
        minSegmentSize |-> 3,
        positionWeights |-> [beginning |-> P(70), middle |-> P(100), end |-> P(150)],
        transitionMarkers |->
          << [word |-> <<"mais">>, weight |-> P(70)],
             [word |-> <<"cependant">>, weight |-> P(70)] >>,
        narrativePatterns |->
          [ redemption |-> P(20), downfall |-> P(0 - 15),
            consistency |-> P(5), mixed |-> P(0 - 5) ],
        analysisWeights |->
          [ progression |-> P(25), conclusion |-> P(25), intensity |-> P(15),
            transitions |-> P(20), baseline |-> P(15) ] ] ]

\* the fallback built when the dictionary file cannot be loaded
emptyDict ==
  [ positiveWords |-> EmptyObject,
    neutralWords |-> EmptyObject,
    negativeWords |-> EmptyObject,
    compounds |->
      [ modifierPrefixes |-> EmptyObject,
        idioms |-> EmptyObject,
        idiomPatterns |-> EmptyObject,
        negationWords |-> <<>> ],
    emojiSentiments |-> EmptyObject,
    config |-> [idiomDetectionRadius |-> 5] ]

\* a dictionary with a short negation window, a one-token context
\* window, "pas" a prefix only and "ne" the negation word
ShortWindowDictionary ==
  [ ReadmeDictionary EXCEPT
      !.compounds.negationWords = << <<"ne">> >>,
      !.config = [negationWindow |-> 2, contextWindow |-> 1] ]

\* a dictionary whose entries overlap: "mauvais" is a neutral and a negative
\* word, "bon" a positive and a negative one, "pas tres" a prefix beside
\* "pas" and "tres", and the idiom "pas mal" ends in the negative word "mal"
OverlappingDictionary ==
  [ ReadmeDictionary EXCEPT
      !.neutralWords = (<<"mauvais">> :> P(50)) @@ @,
      !.negativeWords = (<<"bon">> :> P(40)) @@ (<<"mal">> :> P(30)) @@ @,
      !.compounds.modifierPrefixes = (<<"pas", Blank, "tres">> :> P(50)) @@ @ ]

\* a dictionary with idiom patterns: idioms rooted in "etre" (for "être"),
\* "faire" and "se" beside the plain idiom "pas mal", the forms of "etre",
\* the pronouns, and a detection radius of two tokens
PatternDictionary ==
  [ compounds |->
      [ idioms |->
          (<<"pas", Blank, "mal">> :> P(60)) @@ (<<"etre", Blank, "mal">> :> P(20))
            @@ (<<"faire", Blank, "mal">> :> P(15))
            @@ (<<"se", Blank, "plaindre">> :> P(25)),
        idiomPatterns |->
          [ etre |-> << <<"est">>, <<"suis">> >>,
            pronouns |-> << <<"je">>, <<"me">>, <<"se">> >> ] ]
        @@ ReadmeDictionary.compounds,
    config |-> [idiomDetectionRadius |-> 2] @@ ReadmeDictionary.config ]
    @@ ReadmeDictionary

Dictionaries == {ReadmeDictionary, emptyDict, ShortWindowDictionary, OverlappingDictionary}

----------------------------------------------------------------------------
(* Constructors *)

\* new SentimentAnalyzer(dictionary) of src/src/analyzer.js
NewSentimentAnalyzer(dictionary) ==
  LET compounds == TableOr(dictionary, "compounds", EmptyObject)
      config == TableOr(dictionary, "config", EmptyObject)
  IN [ positiveWords |-> TableOr(dictionary, "positiveWords", EmptyObject),
       neutralWords |-> TableOr(dictionary, "neutralWords", EmptyObject),
       negativeWords |-> TableOr(dictionary, "negativeWords", EmptyObject),
       modifierPrefixes |-> TableOr(compounds, "modifierPrefixes", EmptyObject),
       idioms |-> TableOr(compounds, "idioms", EmptyObject),
       idiomPatterns |-> TableOr(compounds, "idiomPatterns", EmptyObject),
       negationWords |-> TableOr(compounds, "negationWords", <<>>),
       emojiSentiments |-> TableOr(dictionary, "emojiSentiments", EmptyObject),
       config |->
         [ negationWindow |-> FieldOr(config, "negationWindow", 5),
           contextWindow |-> FieldOr(config, "contextWindow", 3),
           idiomDetectionRadius |-> FieldOr(config, "idiomDetectionRadius", 5) ] ]

\* new ContextualAnalyzer(baseAnalyzer, dictionary); the base analyzer is
\* the variable analyzer
NewContextualAnalyzer(dictionary) ==
  LET config == TableOr(dictionary, "config", EmptyObject)
  IN [ weights |->
         TableOr(config, "analysisWeights",
           [ progression |-> P(25), conclusion |-> P(25), intensity |-> P(15),
             transitions |-> P(20), baseline |-> P(15) ]),
       config |->
         [ segmentCount |-> FieldOr(config, "segmentCount", 3),
           minSegmentSize |-> FieldOr(config, "minSegmentSize", 3),
           positionWeights |->
             TableOr(config, "positionWeights",
               [beginning |-> P(70), middle |-> P(100), end |-> P(150)]) ],
       transitionMarkers |->
         TableOr(config, "transitionMarkers",
           << [word |-> <<"mais">>, weight |-> P(70)],
              [word |-> <<"cependant">>, weight |-> P(70)] >>),
       narrativePatterns |->
         TableOr(config, "narrativePatterns",
           [ redemption |-> P(20), downfall |-> P(0 - 15),
             consistency |-> P(5), mixed |-> P(0 - 5) ]) ]

\* new SentimentAnalyzer(dictionary) of src/sentiment-analyzer.js
NewLegacyAnalyzer(dictionary) ==
  LET compounds == TableOr(dictionary, "compounds", EmptyObject)
  IN [ positiveWords |-> TableOr(dictionary, "positiveWords", EmptyObject),
       neutralWords |-> TableOr(dictionary, "neutralWords", EmptyObject),
       negativeWords |-> TableOr(dictionary, "negativeWords", EmptyObject),
       modifierPrefixes |-> TableOr(compounds, "modifierPrefixes", EmptyObject),
       idioms |-> TableOr(compounds, "idioms", EmptyObject) ]

----------------------------------------------------------------------------
(* JavaScript values handed to analyze *)

StringValue(s) == [type |-> "string", str |-> s, num |-> 0]
NumberValue(n) == [type |-> "number", str |-> <<>>, num |-> n]
ObjectValue == [type |-> "object", str |-> <<>>, num |-> 0]
UndefinedValue == [type |-> "undefined", str |-> <<>>, num |-> 0]

\* the truthiness of a value (!text is its negation)
Truthy(v) ==
  CASE v.type = "string" -> v.str # <<>>
    [] v.type = "number" -> v.num # 0
    [] v.type = "object" -> TRUE
    [] OTHER -> FALSE

----------------------------------------------------------------------------
(* SentimentAnalyzer of src/src/analyzer.js *)

\* the nine labels ("tres" stands for "très", "plutot" for "plutôt", ...)
GetSentimentFromScore(score) ==
  IF JsGe(score, P(85)) THEN "tres positif"
  ELSE IF JsGe(score, P(70)) THEN "positif"
  ELSE IF JsGe(score, P(60)) THEN "plutot positif"
  ELSE IF JsGe(score, P(55)) THEN "legerement positif"
  ELSE IF JsGe(score, P(45)) /\ JsLt(score, P(55)) THEN "neutre"
  ELSE IF JsGe(score, P(40)) THEN "legerement negatif"
  ELSE IF JsGe(score, P(30)) THEN "plutot negatif"
  ELSE IF JsGe(score, P(15)) THEN "negatif"
  ELSE "tres negatif"

\* NeutralResult without the emoji list, as the earlier analyzer returns it
NeutralResultOfEarlierAnalyzer ==
  [ score |-> Half,
    sentiment |-> "neutre",
    confidence |-> 0,
    details |-> [words |-> <<>>, modifiers |-> <<>>, idioms |-> <<>>] ]

\* the result returned for a falsy or non-string argument
NeutralResult ==
  [ score |-> Half,
    sentiment |-> "neutre",
    confidence |-> 0,
    details |-> [words |-> <<>>, modifiers |-> <<>>, idioms |-> <<>>, emojis |-> <<>>] ]

ReplacePunctuation(s) ==
  [i \in 1..Len(s) |-> IF s[i] \in Punctuation THEN Blank ELSE s[i]]

RECURSIVE CollapseBlanks(_)
\* replace(/\s+/g, " ")
CollapseBlanks(s) ==
  IF Len(s) < 2 THEN s
  ELSE IF s[1] = Blank /\ s[2] = Blank THEN CollapseBlanks(Tail(s))
  ELSE <<s[1]>> \o CollapseBlanks(Tail(s))

NormalizeText(s) == Trim(CollapseBlanks(ReplacePunctuation(ToLowerCase(s))))

\* text.match(emojiPattern) || []
MatchEmojis(s) == SelectSeq(s, LAMBDA c : c \in EmojiSymbols)

RECURSIVE EntriesOf(_, _)
EntriesOf(table, keys) ==
  IF keys = {} THEN <<>>
  ELSE LET k == CHOOSE x \in keys : TRUE
       IN <<[key |-> k, value |-> table[k]]>> \o EntriesOf(table, keys \ {k})
\* Object.entries(table), in one fixed order
Entries(table) == EntriesOf(table, DOMAIN table)

\* the simple idiom detection: every idiom the normalized text contains
SimpleIdioms(a, normalizedText) ==
  LET hit(e) == Includes(normalizedText, e.key)
      found == SelectSeq(Entries(a.idioms), hit)
  IN [i \in 1..Len(found) |-> [phrase |-> found[i].key, score |-> found[i].value]]

\* ResolveWord looking into the neutral table before the negative one
ResolveWordNeutralFirst(a, word) ==
  IF HasProp(a.positiveWords, word)
  THEN [found |-> TRUE, score |-> GetProp(a.positiveWords, word)]
  ELSE IF HasProp(a.neutralWords, word)
  THEN [found |-> TRUE, score |-> GetProp(a.neutralWords, word)]
  ELSE IF HasProp(a.negativeWords, word)
  THEN [found |-> TRUE, score |-> GetProp(a.negativeWords, word)]
  ELSE [found |-> FALSE, score |-> 0]

\* the polarity of a token: found is wordScore !== null
ResolveWord(a, word) ==
  IF HasProp(a.positiveWords, word)
  THEN [found |-> TRUE, score |-> GetProp(a.positiveWords, word)]
  ELSE IF HasProp(a.negativeWords, word)
  THEN [found |-> TRUE, score |-> GetProp(a.negativeWords, word)]
  ELSE IF HasProp(a.neutralWords, word)
  THEN [found |-> TRUE, score |-> GetProp(a.neutralWords, word)]
  ELSE [found |-> FALSE, score |-> 0]

\* PrefixModifier with the one-token prefix kept when both are prefixes
PrefixModifierOneTokenFirst(table, words, i) ==
  LET word == words[i + 1]
      previousWord == words[i]
      one == i > 0 /\ HasProp(table, previousWord)
      twoWordModifier == words[i - 1] \o <<Blank>> \o previousWord
      two == i > 1 /\ HasProp(table, twoWordModifier)
      m2 == IF two THEN GetProp(table, twoWordModifier) ELSE Unit
      m1 == IF one THEN GetProp(table, previousWord) ELSE m2
  IN [ modifier |-> m1,
       evidence |->
         (IF one
          THEN <<[phrase |-> previousWord, target |-> word, modification |-> m1]>>
          ELSE <<>>)
         \o (IF two
             THEN <<[phrase |-> twoWordModifier, target |-> word, modification |-> m2]>>
             ELSE <<>>) ]

\* the prefix modifier of the token at index i (0-based) and its evidence
PrefixModifier(table, words, i) ==
  LET word == words[i + 1]
      previousWord == words[i]
      one == i > 0 /\ HasProp(table, previousWord)
      twoWordModifier == words[i - 1] \o <<Blank>> \o previousWord
      two == i > 1 /\ HasProp(table, twoWordModifier)
      m1 == IF one THEN GetProp(table, previousWord) ELSE Unit
      m2 == IF two THEN GetProp(table, twoWordModifier) ELSE m1
  IN [ modifier |-> m2,
       evidence |->
         (IF one
          THEN <<[phrase |-> previousWord, target |-> word, modification |-> m1]>>
          ELSE <<>>)
         \o (IF two
             THEN <<[phrase |-> twoWordModifier, target |-> word, modification |-> m2]>>
             ELSE <<>>) ]

\* NegationPower with the distance counted from the negation word itself
NegationPowerFromZero(negationDistance, negationWindow) ==
  Unit - RoundDiv((negationDistance - 1) * Unit, negationWindow)

\* 1 - negationDistance / negationWindow
NegationPower(negationDistance, negationWindow) ==
  Unit - RoundDiv(negationDistance * Unit, negationWindow)

\* score = 0.5 + (0.5 - score) * negationPower
ApplyNegation(score, negationDistance, negationWindow) ==
  JsAdd(Half, JsMul(JsSub(Half, score), NegationPower(negationDistance, negationWindow)))

\* InvertScore without the step away from 0.5
InvertScorePlain(score) == JsSub(Unit, score)

\* the inversion of a negative modifier
InvertScore(score) ==
  LET inverted == JsSub(Unit, score)
  IN IF inverted = Half THEN P(40) ELSE inverted

\* the intensification of a positive modifier other than 1
IntensifyScore(score, modifier) ==
  IF JsGt(score, Half)
  THEN JsMin(Unit, JsAdd(Half, JsMul(JsSub(score, Half), modifier)))
  ELSE IF JsLt(score, Half)
  THEN JsMax(0, JsSub(Half, JsMul(JsSub(Half, score), modifier)))
  ELSE score

\* ApplyModifier leaving the score as it is under a negative modifier
ApplyModifierPositiveOnly(score, modifier) ==
  IF JsLt(modifier, 0) THEN score
  ELSE IF modifier # Unit THEN IntensifyScore(score, modifier)
  ELSE score

\* the modifier block: inversion under a negative factor, intensification
\* under another factor than 1

ApplyModifier(score, modifier) ==
  IF JsLt(modifier, 0) THEN InvertScore(score)
  ELSE IF modifier # Unit THEN IntensifyScore(score, modifier)
  ELSE score

\* NegateThenModify with the two transforms in the other order
ModifyThenNegate(score, negationActive, negationDistance, negationWindow, modifier) ==
  IF negationActive
  THEN ApplyNegation(ApplyModifier(score, modifier), negationDistance, negationWindow)
  ELSE ApplyModifier(score, modifier)

\* the score of a word after the negation block and then the modifier block
NegateThenModify(score, negationActive, negationDistance, negationWindow, modifier) ==
  ApplyModifier(IF negationActive
                THEN ApplyNegation(score, negationDistance, negationWindow)
                ELSE score,
                modifier)

\* _getContextWords: the tokens within windowSize of position (0-based)
GetContextWords(words, position, windowSize) ==
  LET start == IF position - windowSize > 0 THEN position - windowSize ELSE 0
      end == IF position + windowSize + 1 < Len(words)
             THEN position + windowSize + 1 ELSE Len(words)
      idx == SelectSeq([k \in 1..(end - start) |-> start + k - 1],
                       LAMBDA k : k # position)
  IN [k \in 1..Len(idx) |-> words[idx[k] + 1]]

RECURSIVE ContextPull(_, _)
\* the accumulated contextualModifier and relevantContextCount
ContextPull(a, contextWords) ==
  IF contextWords = <<>> THEN [modifier |-> 0, count |-> 0]
  ELSE LET rest == ContextPull(a, SubSeq(contextWords, 1, Len(contextWords) - 1))
           r == ResolveWord(a, contextWords[Len(contextWords)])
       IN IF r.found
          THEN [ modifier |-> JsAdd(rest.modifier, JsMul(JsSub(r.score, Half), P(20))),
                 count |-> rest.count + 1 ]
          ELSE rest

\* AnalyzeWordContext moving the word by half the pull whatever the signs
AnalyzeWordContextAnySign(a, contextWords, centralScore) ==
  IF Len(contextWords) = 0 THEN centralScore
  ELSE LET pull == ContextPull(a, contextWords)
       IN IF pull.count = 0 THEN centralScore
          ELSE JsMax(0, JsMin(Unit, JsAdd(centralScore, JsMul(pull.modifier, P(50)))))

\* _analyzeWordContext
AnalyzeWordContext(a, contextWords, centralScore) ==
  IF Len(contextWords) = 0 THEN centralScore
  ELSE LET pull == ContextPull(a, contextWords)
           contextualModifier == pull.modifier
       IN IF pull.count = 0 THEN centralScore
          ELSE IF JsGt(contextualModifier, 0) /\ JsGt(centralScore, Half)
          THEN JsMin(Unit, JsAdd(centralScore, JsMul(contextualModifier, P(50))))
          ELSE IF JsLt(contextualModifier, 0) /\ JsLt(centralScore, Half)
          THEN JsMax(0, JsAdd(centralScore, JsMul(contextualModifier, P(50))))
          ELSE IF JsGt(contextualModifier, 0) /\ JsLt(centralScore, Half)
          THEN JsMin(Half, JsAdd(centralScore, JsMul(contextualModifier, P(30))))
          ELSE IF JsLt(contextualModifier, 0) /\ JsGt(centralScore, Half)
          THEN JsMax(Half, JsAdd(centralScore, JsMul(contextualModifier, P(30))))
          ELSE centralScore

\* the running state of the token pass after the idioms and the emojis
ScanStart(idioms, emojis) ==
  LET idiomSum[k \in 0..Len(idioms)] ==
        IF k = 0 THEN 0 ELSE JsAdd(idiomSum[k - 1], idioms[k].score)
      emojiSum[k \in 0..Len(emojis)] ==
        IF k = 0 THEN idiomSum[Len(idioms)] ELSE JsAdd(emojiSum[k - 1], emojis[k].score)
  IN [ negationActive |-> FALSE,
       negationDistance |-> 0,
       totalScore |-> emojiSum[Len(emojis)],
       wordCount |-> Len(idioms) + Len(emojis),
       confidence |-> Len(idioms) * P(80) + Len(emojis) * P(70),
       words |-> <<>>,
       modifiers |-> <<>> ]

\* OpenScope for a negation word that leaves the distance of an open scope
\* as it is
OpenScopeKeepingDistance(st, word) ==
  [ st EXCEPT
      !.negationActive = TRUE,
      !.negationDistance = IF st.negationActive THEN @ ELSE 0,
      !.modifiers =
        Append(@, [phrase |-> word, type |-> "negation", scope |-> "starts"]) ]

\* the iteration for a negation word: the scope opens, or opens anew
OpenScope(st, word) ==
  [ st EXCEPT
      !.negationActive = TRUE,
      !.negationDistance = 0,
      !.modifiers =
        Append(@, [phrase |-> word, type |-> "negation", scope |-> "starts"]) ]

\* CloseScope naming the negation word itself, one token further back
CloseScopeAtNegation(modifiers, words, i, negationWindow) ==
  Append(modifiers,
    [phrase |-> words[i - negationWindow], type |-> "negation", scope |-> "ends"])

\* the evidence that the scope has closed at the token of index i (0-based):
\* its phrase is words[i - negationWindow]
CloseScope(modifiers, words, i, negationWindow) ==
  Append(modifiers,
    [phrase |-> words[i - negationWindow + 1], type |-> "negation", scope |-> "ends"])

\* one iteration of the token loop, for the token at index i (0-based)
ScanStep(a, words, i, st) ==
  LET word == words[i + 1]
  IN IF InArray(word, a.negationWords)
     THEN OpenScope(st, word)
     ELSE
       LET distance == IF st.negationActive THEN st.negationDistance + 1
                       ELSE st.negationDistance
           closes == st.negationActive /\ distance > a.config.negationWindow
           negationActive == st.negationActive /\ ~closes
           mods1 == IF closes
                    THEN CloseScope(st.modifiers, words, i, a.config.negationWindow)
                    ELSE st.modifiers
           r == ResolveWord(a, word)
       IN IF ~r.found
          THEN [ st EXCEPT
                   !.negationActive = negationActive,
                   !.negationDistance = distance,
                   !.modifiers = mods1 ]
          ELSE
            LET pm == PrefixModifier(a.modifierPrefixes, words, i)
                score == NegateThenModify(r.score, negationActive, distance,
                                          a.config.negationWindow, pm.modifier)
                contextWords == GetContextWords(words, i, a.config.contextWindow)
                contextScore == AnalyzeWordContext(a, contextWords, score)
            IN [ negationActive |-> negationActive,
                 negationDistance |-> distance,
                 totalScore |-> JsAdd(st.totalScore, contextScore),
                 wordCount |-> st.wordCount + 1,
                 confidence |-> st.confidence + P(50),
                 words |->
                   Append(st.words,
                     [ word |-> word,
                       originalScore |-> r.score,
                       modifiedScore |-> score,
                       contextScore |-> contextScore,
                       negated |-> negationActive ]),
                 modifiers |-> mods1 \o pm.evidence ]

RECURSIVE ScanWords(_, _, _, _)
\* the token loop from index i on
ScanWords(a, words, i, st) ==
  IF i >= Len(words) THEN st
  ELSE ScanWords(a, words, i + 1, ScanStep(a, words, i, st))

\* the first words of the idioms indexed by the rest of the phrase
CommonVerbs == {<<"etre">>, <<"avoir">>, <<"se">>, <<"faire">>}

\* idiomKeywords[keyword].push(info), the list created when absent
PushKeyword(acc, keyword, info) ==
  IF \E k \in 1..Len(acc) : acc[k].keyword = keyword
  THEN [k \in 1..Len(acc) |->
          IF acc[k].keyword = keyword
          THEN [acc[k] EXCEPT !.infos = Append(@, info)] ELSE acc[k]]
  ELSE Append(acc, [keyword |-> keyword, infos |-> <<info>>])

\* whether the idiom is indexed by the words after its first one
RootedIdiom(idiom) ==
  LET idiomWords == Split(idiom, <<Blank>>)
  IN IF Len(idiomWords) >= 2 THEN idiomWords[1] \in CommonVerbs ELSE FALSE

\* the keyword an idiom is indexed by
KeywordOf(idiom) ==
  IF RootedIdiom(idiom)
  THEN JoinWith(Tail(Split(idiom, <<Blank>>)), <<Blank>>)
  ELSE idiom

RECURSIVE IdiomKeywordsFrom(_, _)
\* the entries of idiomKeywords, in the order the keywords were added
IdiomKeywordsFrom(entries, acc) ==
  IF entries = <<>> THEN acc
  ELSE IF RootedIdiom(Head(entries).key) /\ StrLength(KeywordOf(Head(entries).key)) <= 2
       THEN IdiomKeywordsFrom(Tail(entries), acc)
       ELSE IdiomKeywordsFrom(Tail(entries),
              PushKeyword(acc, KeywordOf(Head(entries).key),
                          [fullIdiom |-> Head(entries).key, score |-> Head(entries).value]))

\* matchesKeyword after the comparison loop at token index i (from 0): the
\* loop compares while i + j is an index of words
MatchesKeyword(words, i, keywordWords) ==
  \A j \in 0..(Len(keywordWords) - 1) :
    i + j < Len(words) => words[i + j + 1] = keywordWords[j + 1]

\* this.idiomPatterns[key] as a condition
HasPattern(a, key) == key \in DOMAIN a.idiomPatterns
\* this.idiomPatterns[key].includes(word), false when the list is absent
InPattern(a, key, word) ==
  IF HasPattern(a, key) THEN InArray(word, a.idiomPatterns[key]) ELSE FALSE

\* the if / else-if chain of the backward search on the candidate at index k
VerbFormAt(a, words, i, k, firstWord) ==
  CASE firstWord = <<"etre">> -> InPattern(a, "etre", words[k + 1])
    [] firstWord = <<"avoir">> -> InPattern(a, "avoir", words[k + 1])
    [] firstWord = <<"se">> ->
         IF HasPattern(a, "se faire")
         THEN \/ InPattern(a, "se faire", words[k + 1])
              \/ /\ InPattern(a, "pronouns", words[k + 1])
                 /\ k + 1 < i
                 /\ StartsWith(words[k + 2], "fai")
         ELSE FALSE
    [] firstWord = <<"faire">> -> StartsWith(words[k + 1], "fai")
    [] OTHER -> FALSE

\* the pronoun test that follows the chain on the candidate at index k
PronounThenVerbAt(a, words, i, k, firstWord) ==
  /\ InPattern(a, "pronouns", words[k + 1])
  /\ k + 1 < i
  /\ \/ firstWord = <<"etre">> /\ StartsWith(words[k + 2], "s")
     \/ firstWord = <<"avoir">> /\ StartsWith(words[k + 2], "a")
     \/ firstWord = <<"faire">> /\ StartsWith(words[k + 2], "fai")

\* verbFound after the backward search from token index i
VerbFound(a, words, i, firstWord) ==
  \E k \in (IF i > a.config.idiomDetectionRadius
            THEN i - a.config.idiomDetectionRadius ELSE 0)..(i - 1) :
    VerbFormAt(a, words, i, k, firstWord) \/ PronounThenVerbAt(a, words, i, k, firstWord)

\* whether the idiom of a matching keyword is registered at token index i
Registered(a, words, i, fullIdiom) ==
  IF Head(Split(fullIdiom, <<Blank>>)) \in CommonVerbs
  THEN VerbFound(a, words, i, Head(Split(fullIdiom, <<Blank>>)))
  ELSE TRUE

RECURSIVE IdiomsOfInfos(_, _, _, _, _)
\* the idioms pushed for one matching keyword at token index i
IdiomsOfInfos(a, words, i, keywordWords, infos) ==
  IF infos = <<>> THEN <<>>
  ELSE (IF Registered(a, words, i, Head(infos).fullIdiom)
        THEN << [ phrase |-> Head(infos).fullIdiom,
                  score |-> Head(infos).score,
                  position |-> [start |-> i, end |-> i + Len(keywordWords) - 1] ] >>
        ELSE <<>>)
       \o IdiomsOfInfos(a, words, i, keywordWords, Tail(infos))

RECURSIVE IdiomsAt(_, _, _, _)
\* the idioms pushed at token index i, keyword by keyword
IdiomsAt(a, words, i, keywords) ==
  IF keywords = <<>> THEN <<>>
  ELSE (IF MatchesKeyword(words, i, Split(Head(keywords).keyword, <<Blank>>))
        THEN IdiomsOfInfos(a, words, i, Split(Head(keywords).keyword, <<Blank>>),
                           Head(keywords).infos)
        ELSE <<>>)
       \o IdiomsAt(a, words, i, Tail(keywords))

RECURSIVE DetectIdiomsFrom(_, _, _, _)
DetectIdiomsFrom(a, words, i, keywords) ==
  IF i >= Len(words) THEN <<>>
  ELSE IdiomsAt(a, words, i, keywords) \o DetectIdiomsFrom(a, words, i + 1, keywords)

\* SentimentAnalyzer._detectIdioms
DetectIdioms(a, normalizedText) ==
  DetectIdiomsFrom(a, Split(normalizedText, <<Blank>>), 0, IdiomKeywordsFrom(Entries(a.idioms), <<>>))

\* the detected idioms: the pattern-aware detection when idiomPatterns is
\* populated, the simple one otherwise
DetectedIdioms(a, normalizedText) ==
  IF DOMAIN a.idiomPatterns # {}
  THEN DetectIdioms(a, normalizedText)
  ELSE SimpleIdioms(a, normalizedText)

\* the emoji evidence: the matched emojis the lexicon scores
EmojiEvidence(a, s) ==
  LET known == SelectSeq(MatchEmojis(s), LAMBDA e : e \in DOMAIN a.emojiSentiments)
  IN [k \in 1..Len(known) |-> [emoji |-> known[k], score |-> a.emojiSentiments[known[k]]]]

\* the sum of the idiom scores
RECURSIVE IdiomScoreTotal(_)
IdiomScoreTotal(idioms) ==
  IF idioms = <<>> THEN 0 ELSE JsAdd(Head(idioms).score, IdiomScoreTotal(Tail(idioms)))

\* ScoredResult with the idioms weighted 1.5 in the mean, as the earlier
\* analyzer weights them
ScoredResultIdiomWeighted(st, idioms, emojis) ==
  LET finalScore ==
        IF st.wordCount > 0
        THEN JsDivInt(JsAdd(JsAdd(st.totalScore, st.totalScore), IdiomScoreTotal(idioms)),
                      2 * st.wordCount + Len(idioms))
        ELSE Half
      confidence == IF st.wordCount > 0
                    THEN JsMin(Unit, RoundDiv(st.confidence * Unit, st.wordCount * P(80)))
                    ELSE 0
  IN [ score |-> ToFixed2(finalScore),
       sentiment |-> GetSentimentFromScore(finalScore),
       confidence |-> ToFixed2(confidence),
       details |->
         [ words |-> st.words, modifiers |-> st.modifiers,
           idioms |-> idioms, emojis |-> emojis ] ]

\* the result analyze returns once the token loop has ended in state st
ScoredResult(st, idioms, emojis) ==
  LET finalScore == IF st.wordCount > 0 THEN JsDivInt(st.totalScore, st.wordCount)
                    ELSE Half
      confidence == IF st.wordCount > 0
                    THEN JsMin(Unit, RoundDiv(st.confidence * Unit, st.wordCount * P(80)))
                    ELSE 0
  IN [ score |-> ToFixed2(finalScore),
       sentiment |-> GetSentimentFromScore(finalScore),
       confidence |-> ToFixed2(confidence),
       details |->
         [ words |-> st.words, modifiers |-> st.modifiers,
           idioms |-> idioms, emojis |-> emojis ] ]

\* SentimentAnalyzer.analyze on a non-empty string
AnalyzeString(a, s) ==
  ScoredResult(
    ScanWords(a, Split(NormalizeText(s), <<Blank>>), 0,
              ScanStart(DetectedIdioms(a, NormalizeText(s)), EmojiEvidence(a, s))),
    DetectedIdioms(a, NormalizeText(s)),
    EmojiEvidence(a, s))

\* SentimentAnalyzer.analyze
Analyze(a, v) ==
  IF ~Truthy(v) \/ v.type # "string" THEN NeutralResult
  ELSE AnalyzeString(a, v.str)

----------------------------------------------------------------------------
(* ContextualAnalyzer of src/src/analyzer.js; a is the base analyzer *)

RECURSIVE SplitOnSentenceEnd(_, _)
\* text.split(/[.!?]+/), the empty pieces between adjacent marks included
SplitOnSentenceEnd(s, cur) ==
  IF s = <<>> THEN <<cur>>
  ELSE IF Head(s) \in SentenceEnd THEN <<cur>> \o SplitOnSentenceEnd(Tail(s), <<>>)
  ELSE SplitOnSentenceEnd(Tail(s), Append(cur, Head(s)))

\* _splitIntoSentences
SplitIntoSentences(s) ==
  LET pieces == SplitOnSentenceEnd(s, <<>>)
      trimmed == [k \in 1..Len(pieces) |-> Trim(pieces[k])]
  IN SelectSeq(trimmed, LAMBDA x : Len(x) > 0)

Max2(x, y) == IF x > y THEN x ELSE y

\* QuarterSize rounding the quarter up
QuarterSizeCeiling(n) == (n + 3) \div 4

\* Math.max(1, Math.floor(sentences.length * 0.25))
QuarterSize(n) == Max2(1, n \div 4)

\* SegmentText with the end taken from the last sentence of the middle on
SegmentTextEndFromMiddle(sentences) ==
  IF Len(sentences) <= 1
  THEN <<[type |-> "singleSentence", content |-> JoinWith(sentences, <<Blank>>)]>>
  ELSE
    LET n == Len(sentences)
        middleStart == QuarterSize(n)
        middleEnd == n - QuarterSize(n)
    IN <<[ type |-> "beginning",
           content |-> JoinWith(SubSeq(sentences, 1, middleStart), <<Blank>>) ]>>
       \o (IF middleEnd > middleStart
           THEN <<[ type |-> "middle",
                    content |->
                      JoinWith(SubSeq(sentences, middleStart + 1, middleEnd), <<Blank>>) ]>>
           ELSE <<>>)
       \o <<[ type |-> "end",
              content |-> JoinWith(SubSeq(sentences, middleEnd, n), <<Blank>>) ]>>

\* _segmentText
SegmentText(sentences) ==
  IF Len(sentences) <= 1
  THEN <<[type |-> "singleSentence", content |-> JoinWith(sentences, <<Blank>>)]>>
  ELSE
    LET n == Len(sentences)
        beginningSize == QuarterSize(n)
        middleStart == beginningSize
        middleEnd == n - QuarterSize(n)
    IN <<[ type |-> "beginning",
           content |-> JoinWith(SubSeq(sentences, 1, beginningSize), <<Blank>>) ]>>
       \o (IF middleEnd > middleStart
           THEN <<[ type |-> "middle",
                    content |->
                      JoinWith(SubSeq(sentences, middleStart + 1, middleEnd), <<Blank>>) ]>>
           ELSE <<>>)
       \o <<[ type |-> "end",
              content |-> JoinWith(SubSeq(sentences, middleEnd + 1, n), <<Blank>>) ]>>

\* this.config.positionWeights[type] || 1.0
PositionWeight(ca, type) == FieldOr(ca.config.positionWeights, type, Unit)

\* segment.content.split(" ").filter((w) => w.length > 0).length
SegmentWordCount(content) ==
  Len(SelectSeq(Split(content, <<Blank>>), LAMBDA w : Len(w) > 0))

\* the entry _analyzeSegments stores for one segment
SegmentScore(ca, a, segment) ==
  LET segmentAnalysis == Analyze(a, StringValue(segment.content))
      wordCount == SegmentWordCount(segment.content)
      sizeWeight == JsMin(Unit, RoundDiv(wordCount * Unit, ca.config.minSegmentSize))
  IN [ type |-> segment.type,
       content |-> segment.content,
       score |-> segmentAnalysis.score,
       confidence |-> segmentAnalysis.confidence,
       weight |-> JsMul(PositionWeight(ca, segment.type), sizeWeight),
       wordCount |-> wordCount ]

\* the weighted mean _analyzeSegments forms over the stored entries
WeightedSegments(segmentScores) ==
  LET weighted[k \in 0..Len(segmentScores)] ==
        IF k = 0 THEN 0
        ELSE JsAdd(weighted[k - 1], JsMul(segmentScores[k].score, segmentScores[k].weight))
      weight[k \in 0..Len(segmentScores)] ==
        IF k = 0 THEN 0 ELSE weight[k - 1] + segmentScores[k].weight
      totalWeight == weight[Len(segmentScores)]
      totalWeightedScore == weighted[Len(segmentScores)]
  IN [ segments |-> segmentScores,
       weightedScore |->
         IF totalWeight > 0
         THEN (IF IsNaN(totalWeightedScore) THEN NaN
               ELSE RoundDiv(totalWeightedScore * Unit, totalWeight))
         ELSE Half,
       totalWeight |-> totalWeight ]

\* _analyzeSegments
AnalyzeSegments(ca, a, segments) ==
  WeightedSegments([k \in 1..Len(segments) |-> SegmentScore(ca, a, segments[k])])

\* the first element of the given type, or the fallback element
FirstOfType(segments, type, fallback) ==
  LET hits == SelectSeq(segments, LAMBDA x : x.type = type)
  IN IF Len(hits) > 0 THEN hits[1] ELSE fallback

\* _analyzeProgression
AnalyzeProgression(segmentAnalysis) ==
  LET segments == segmentAnalysis.segments
  IN IF Len(segments) <= 1 THEN [progression |-> 0, impact |-> 0]
     ELSE
       LET firstSegment == FirstOfType(segments, "beginning", segments[1])
           lastSegment == FirstOfType(segments, "end", segments[Len(segments)])
           progression == JsSub(lastSegment.score, firstSegment.score)
           impact == IF JsGt(progression, P(30)) THEN JsMul(progression, P(50))
                     ELSE IF JsLt(progression, P(0 - 30)) THEN JsMul(progression, P(40))
                     ELSE JsMul(progression, P(20))
       IN [ startScore |-> firstSegment.score,
            endScore |-> lastSegment.score,
            progression |-> ToFixed2(progression),
            impact |-> ToFixed2(impact) ]

RECURSIVE SumScores(_, _)
\* the sum of analyze(segment.content).score over the segments
SumScores(a, segments) ==
  IF segments = <<>> THEN 0
  ELSE JsAdd(SumScores(a, SubSeq(segments, 1, Len(segments) - 1)),
             Analyze(a, StringValue(segments[Len(segments)].content)).score)

\* the five bands of the conclusion's impact
ConclusionImpact(difference) ==
  IF JsGt(difference, P(30)) THEN JsMul(difference, P(70))
  ELSE IF JsGt(difference, P(10)) THEN JsMul(difference, P(50))
  ELSE IF JsLt(difference, P(0 - 30)) THEN JsMul(difference, P(50))
  ELSE IF JsLt(difference, P(0 - 10)) THEN JsMul(difference, P(30))
  ELSE JsMul(difference, P(10))

\* what _analyzeConclusion reports for the conclusion's score against the
\* mean score of the other segments
ConclusionFactor(score, otherSegmentsScore) ==
  LET difference == JsSub(score, otherSegmentsScore)
  IN [ score |-> score,
       difference |-> ToFixed2(difference),
       impact |-> ToFixed2(ConclusionImpact(difference)) ]

\* AnalyzeConclusion taking the last segment for the conclusion whatever its
\* type
AnalyzeConclusionOfLastSegment(a, segments) ==
  IF segments = <<>> THEN [impact |-> 0]
  ELSE ConclusionFactor(
         Analyze(a, StringValue(segments[Len(segments)].content)).score,
         IF Len(segments) > 1
         THEN JsDivInt(SumScores(a, SubSeq(segments, 1, Len(segments) - 1)),
                       Len(segments) - 1)
         ELSE Half)

\* _analyzeConclusion
AnalyzeConclusion(a, segments) ==
  LET conclusionSegments == SelectSeq(segments, LAMBDA x : x.type = "end")
      otherSegments == SelectSeq(segments, LAMBDA x : x.type # "end")
  IN IF Len(conclusionSegments) = 0 THEN [impact |-> 0]
     ELSE ConclusionFactor(
            Analyze(a, StringValue(conclusionSegments[1].content)).score,
            IF Len(otherSegments) > 0
            THEN JsDivInt(SumScores(a, otherSegments), Len(otherSegments))
            ELSE Half)

RECURSIVE SumOf(_)
SumOf(xs) == IF xs = <<>> THEN 0 ELSE JsAdd(SumOf(SubSeq(xs, 1, Len(xs) - 1)), xs[Len(xs)])
RECURSIVE MinOf(_)
\* Math.min(...xs) of a non-empty list
MinOf(xs) == IF Len(xs) = 1 THEN xs[1] ELSE JsMin(MinOf(Tail(xs)), xs[1])
RECURSIVE MaxOf(_)
\* Math.max(...xs) of a non-empty list
MaxOf(xs) == IF Len(xs) = 1 THEN xs[1] ELSE JsMax(MaxOf(Tail(xs)), xs[1])

\* IntensityImpact with the near-neutral band pushed away from 0.5
IntensityImpactAwayFromHalf(score, intensity) ==
  IF JsGt(score, P(60)) THEN JsMul(intensity, P(15))
  ELSE IF JsLt(score, P(40)) THEN JsMul(JsSub(0, intensity), P(15))
  ELSE JsMul(JsMul(JsSub(score, Half), intensity), P(10))

\* the impact of the intensity on a text of the given base score
IntensityImpact(score, intensity) ==
  IF JsGt(score, P(60)) THEN JsMul(intensity, P(15))
  ELSE IF JsLt(score, P(40)) THEN JsMul(JsSub(0, intensity), P(15))
  ELSE JsMul(JsMul(JsSub(Half, score), intensity), P(10))

\* _analyzeIntensity
AnalyzeIntensity(baseResult) ==
  LET ws == baseResult.details.words
      wordScores == [k \in 1..Len(ws) |-> ws[k].modifiedScore]
  IN IF Len(wordScores) < 2 THEN [intensity |-> 0, impact |-> 0]
     ELSE
       LET mean == JsDivInt(SumOf(wordScores), Len(wordScores))
           squaredDiffs ==
             [k \in 1..Len(wordScores) |->
                JsMul(JsSub(wordScores[k], mean), JsSub(wordScores[k], mean))]
           variance == JsDivInt(SumOf(squaredDiffs), Len(wordScores))
           stdDev == JsSqrt(variance)
           range == JsSub(MaxOf(wordScores), MinOf(wordScores))
           sum == JsAdd(JsMul(stdDev, P(200)), JsMul(range, P(50)))
           \* sum / 2.5
           intensity == IF IsNaN(sum) THEN NaN ELSE RoundDiv(sum * 100, 250)
       IN [ stdDev |-> ToFixed2(stdDev),
            range |-> ToFixed2(range),
            intensity |-> ToFixed2(intensity),
            impact |-> ToFixed2(IntensityImpact(baseResult.score, intensity)) ]

\* whether the regular expression \bword\b matches s at position p: the
\* marker occurs there and no letter precedes or follows it
WholeWordAt(s, word, p) ==
  /\ OccursAt(s, word, p)
  /\ (p = 1 \/ ~IsWordSymbol(s[p - 1]))
  /\ (p + Len(word) > Len(s) \/ ~IsWordSymbol(s[p + Len(word)]))

\* lowerText.match(regex) finds at least one match
MarkerFound(lowerText, word) == \E p \in 1..Len(lowerText) : WholeWordAt(lowerText, word, p)

\* detectedTransitions after the sort by decreasing weight (a stable sort:
\* the first found marker among those of the largest weight comes first)
StrongestTransition(ca, lowerText) ==
  LET found == SelectSeq(ca.transitionMarkers, LAMBDA m : MarkerFound(lowerText, m.word))
      best == CHOOSE k \in 1..Len(found) :
                /\ \A j \in 1..Len(found) : found[j].weight <= found[k].weight
                /\ \A j \in 1..(k - 1) : found[j].weight < found[k].weight
  IN IF Len(found) = 0 THEN [found |-> FALSE]
     ELSE [found |-> TRUE, marker |-> found[best].word, weight |-> found[best].weight]

\* what _analyzeTransitions reports for the two sides of the marker and
\* their scores
TransitionShift(strongestTransition, beforeTransition, afterTransition, beforeScore, afterScore) ==
  LET sentimentShift == JsSub(afterScore, beforeScore)
      rawImpact == JsMul(sentimentShift, strongestTransition.weight)
      afterRatio ==
        RoundDiv(StrLength(afterTransition) * Unit,
                 StrLength(beforeTransition) + StrLength(afterTransition))
      weightedImpact == JsMul(rawImpact, JsMin(Unit, 2 * afterRatio))
  IN [ found |-> TRUE,
       marker |-> strongestTransition.marker,
       weight |-> strongestTransition.weight,
       beforeScore |-> beforeScore,
       afterScore |-> afterScore,
       shift |-> ToFixed2(sentimentShift),
       impact |-> ToFixed2(weightedImpact) ]

\* what _analyzeTransitions reports once the text is split on the marker
TransitionParts(a, strongestTransition, parts) ==
  IF Len(parts) < 2 \/ Len(Trim(parts[1])) = 0 \/ Len(Trim(parts[2])) = 0
  THEN [ found |-> TRUE,
         marker |-> strongestTransition.marker,
         impact |-> JsMul(strongestTransition.weight, P(5)) ]
  ELSE TransitionShift(strongestTransition,
         parts[1],
         JoinWith(Tail(parts), strongestTransition.marker),
         Analyze(a, StringValue(parts[1])).score,
         Analyze(a, StringValue(JoinWith(Tail(parts), strongestTransition.marker))).score)

\* what _analyzeTransitions reports for the strongest detected marker
TransitionFactor(a, lowerText, strongestTransition) ==
  IF ~strongestTransition.found THEN [found |-> FALSE, impact |-> 0]
  ELSE TransitionParts(a, strongestTransition,
                       Split(lowerText, strongestTransition.marker))

\* _analyzeTransitions
AnalyzeTransitions(ca, a, s) ==
  TransitionFactor(a, ToLowerCase(s), StrongestTransition(ca, ToLowerCase(s)))

\* NarrativePatternOf with the bands closed at 0.25 and -0.25
NarrativePatternClosedBands(progression) ==
  IF JsGe(progression, P(25)) THEN "redemption"
  ELSE IF JsGe(JsSub(0, progression), P(25)) THEN "downfall"
  ELSE IF JsLt(JsAbs(progression), P(10)) THEN "consistency"
  ELSE "mixed"

\* the pattern _identifyNarrativePattern chooses
NarrativePatternOf(progression) ==
  IF JsGt(progression, P(25)) THEN "redemption"
  ELSE IF JsLt(progression, P(0 - 25)) THEN "downfall"
  ELSE IF JsLt(JsAbs(progression), P(10)) THEN "consistency"
  ELSE "mixed"

\* _identifyNarrativePattern; the description is a function of the pattern
IdentifyNarrativePattern(ca, progressionFactor) ==
  LET progression == progressionFactor.progression
      progressionAbs == JsAbs(progression)
      pattern == NarrativePatternOf(progression)
      \* progressionAbs / 0.5
      scale == IF IsNaN(progressionAbs) THEN NaN ELSE progressionAbs * 2
      impact ==
        CASE pattern = "redemption" -> JsMul(ca.narrativePatterns.redemption, scale)
          [] pattern = "downfall" -> JsMul(ca.narrativePatterns.downfall, scale)
          [] pattern = "consistency" -> ca.narrativePatterns.consistency
          [] OTHER -> ca.narrativePatterns.mixed
  IN [pattern |-> pattern, impact |-> ToFixed2(impact), description |-> pattern]

\* factor.impact || 0, for a factor that may carry no impact
ImpactOf(factor) == IF "impact" \in DOMAIN factor THEN OrZero(factor.impact) ELSE 0

\* CalculateContextualScore with the baseline weight applied to the base score
CalculateWithBaseline(ca, baseScore, progressionFactor, conclusionFactor, intensityFactor, transitionFactor, narrativePattern) ==
  JsMax(0, JsMin(Unit,
    JsAdd(JsAdd(JsAdd(JsAdd(JsAdd(JsMul(baseScore, ca.weights.baseline),
      JsMul(OrZero(progressionFactor.impact), ca.weights.progression)),
      JsMul(OrZero(conclusionFactor.impact), ca.weights.conclusion)),
      JsMul(OrZero(intensityFactor.impact), ca.weights.intensity)),
      JsMul(OrZero(transitionFactor.impact), ca.weights.transitions)),
      OrZero(narrativePattern.impact))))

\* _calculateContextualScore
CalculateContextualScore(ca, baseScore, progressionFactor, conclusionFactor, intensityFactor, transitionFactor, narrativePattern) ==
  LET weightedProgression == JsMul(ImpactOf(progressionFactor), ca.weights.progression)
      weightedConclusion == JsMul(ImpactOf(conclusionFactor), ca.weights.conclusion)
      weightedIntensity == JsMul(ImpactOf(intensityFactor), ca.weights.intensity)
      weightedTransition == JsMul(ImpactOf(transitionFactor), ca.weights.transitions)
      contextualScore ==
        JsAdd(JsAdd(JsAdd(JsAdd(JsAdd(baseScore, weightedProgression),
                                weightedConclusion), weightedIntensity),
                    weightedTransition), ImpactOf(narrativePattern))
  IN JsMax(0, JsMin(Unit, contextualScore))

\* TrendOf with every threshold 0.3 further from 0
TrendOfSteep(evolution) ==
  IF JsGt(evolution, P(50)) THEN "nette amelioration"
  ELSE IF JsGt(evolution, P(40)) THEN "amelioration"
  ELSE IF JsGt(evolution, P(35)) THEN "legere amelioration"
  ELSE IF JsLt(evolution, P(0 - 50)) THEN "nette degradation"
  ELSE IF JsLt(evolution, P(0 - 40)) THEN "degradation"
  ELSE IF JsLt(evolution, P(0 - 35)) THEN "legere degradation"
  ELSE "stable"

\* the trend bucket of _analyzeTrends
TrendOf(evolution) ==
  IF JsGt(evolution, P(20)) THEN "nette amelioration"
  ELSE IF JsGt(evolution, P(10)) THEN "amelioration"
  ELSE IF JsGt(evolution, P(5)) THEN "legere amelioration"
  ELSE IF JsLt(evolution, P(0 - 20)) THEN "nette degradation"
  ELSE IF JsLt(evolution, P(0 - 10)) THEN "degradation"
  ELSE IF JsLt(evolution, P(0 - 5)) THEN "legere degradation"
  ELSE "stable"

\* the description of _analyzeTrends: which sentence opens it, the
\* percentage it prints and which sentence closes it
TrendDescription(evolution, startScore) ==
  IF JsLt(JsAbs(evolution), P(5))
  THEN [opening |-> "stable", percent |-> 0, closing |-> "none"]
  ELSE IF JsGt(evolution, 0)
  THEN [ opening |-> "plus positif",
         percent |-> evolution \div Cent,
         closing |->
           IF JsLt(startScore, P(40)) THEN "commence negativement"
           ELSE IF JsLt(startScore, P(55)) THEN "demarre neutre"
           ELSE "positif des le debut" ]
  ELSE [ opening |-> "plus negatif",
         percent |-> IF IsNaN(evolution) THEN NaN ELSE JsAbs(evolution) \div Cent,
         closing |->
           IF JsGt(startScore, P(60)) THEN "commence positivement"
           ELSE IF JsGt(startScore, P(45)) THEN "demarre neutre"
           ELSE "negatif des le debut" ]

\* _analyzeTrends
AnalyzeTrends(segmentAnalysis, progressionFactor) ==
  IF Len(segmentAnalysis.segments) <= 1
  THEN [ trend |-> "stable", evolution |-> 0,
         description |-> [opening |-> "trop court", percent |-> 0, closing |-> "none"] ]
  ELSE
    LET evolution == progressionFactor.progression
    IN [ trend |-> TrendOf(evolution),
         evolution |-> ToFixed2(evolution),
         startingPoint |-> ToFixed2(progressionFactor.startScore),
         endingPoint |-> ToFixed2(progressionFactor.endScore),
         description |-> TrendDescription(evolution, progressionFactor.startScore) ]

\* ContextualGetSentimentFromScore with the neutral band closed at 0.55
ContextualLabelWideNeutral(score) ==
  IF JsGe(score, P(85)) THEN "tres positif"
  ELSE IF JsGe(score, P(70)) THEN "positif"
  ELSE IF JsGe(score, P(60)) THEN "plutot positif"
  ELSE IF JsGt(score, P(55)) THEN "legerement positif"
  ELSE IF JsGe(score, P(45)) THEN "neutre"
  ELSE IF JsGe(score, P(40)) THEN "legerement negatif"
  ELSE IF JsGe(score, P(30)) THEN "plutot negatif"
  ELSE IF JsGe(score, P(15)) THEN "negatif"
  ELSE "tres negatif"

\* ContextualAnalyzer._getSentimentFromScore
ContextualGetSentimentFromScore(score) ==
  IF JsGe(score, P(85)) THEN "tres positif"
  ELSE IF JsGe(score, P(70)) THEN "positif"
  ELSE IF JsGe(score, P(60)) THEN "plutot positif"
  ELSE IF JsGe(score, P(55)) THEN "legerement positif"
  ELSE IF JsGe(score, P(45)) /\ JsLt(score, P(55)) THEN "neutre"
  ELSE IF JsGe(score, P(40)) THEN "legerement negatif"
  ELSE IF JsGe(score, P(30)) THEN "plutot negatif"
  ELSE IF JsGe(score, P(15)) THEN "negatif"
  ELSE "tres negatif"

\* the result ContextualAnalyzer.analyze prepares before any stage runs
EnhancedResult(baseResult) ==
  [ score |-> baseResult.score,
    sentiment |-> baseResult.sentiment,
    confidence |-> baseResult.confidence,
    details |-> baseResult.details,
    baseScore |-> baseResult.score,
    contextualScore |-> baseResult.score,
    contextFactors |-> EmptyObject ]

\* TooShort on the length of the text as given, blanks at its ends included
TooShortUntrimmed(v) == ~Truthy(v) \/ v.type # "string" \/ StrLength(v.str) < 10

\* !text || typeof text !== "string" || text.trim().length < 10
TooShort(v) == ~Truthy(v) \/ v.type # "string" \/ StrLength(Trim(v.str)) < 10

\* the result ContextualAnalyzer.analyze returns from the factors
ContextualResult(ca, baseResult, segmentAnalysis, progressionFactor, conclusionFactor, intensityFactor, transitionFactor) ==
  LET narrativePattern == IdentifyNarrativePattern(ca, progressionFactor)
      contextualScore ==
        CalculateContextualScore(ca, baseResult.score, progressionFactor,
          conclusionFactor, intensityFactor, transitionFactor, narrativePattern)
      \* Math.max(0, Math.min(1, contextualScore)) once more in analyze
      clamped == JsMax(0, JsMin(Unit, contextualScore))
  IN [ score |-> baseResult.score,
       sentiment |-> baseResult.sentiment,
       confidence |-> baseResult.confidence,
       details |-> baseResult.details,
       baseScore |-> baseResult.score,
       contextualScore |-> clamped,
       contextFactors |->
         [ segments |-> segmentAnalysis,
           progression |-> progressionFactor,
           conclusion |-> conclusionFactor,
           intensity |-> intensityFactor,
           transitions |-> transitionFactor,
           narrative |-> narrativePattern ],
       contextualSentiment |-> ContextualGetSentimentFromScore(clamped),
       trends |-> AnalyzeTrends(segmentAnalysis, progressionFactor) ]

\* the stages of ContextualAnalyzer.analyze on a text long enough
ContextStages(ca, a, s, baseResult, segments) ==
  ContextualResult(ca, baseResult,
    AnalyzeSegments(ca, a, segments),
    AnalyzeProgression(AnalyzeSegments(ca, a, segments)),
    AnalyzeConclusion(a, segments),
    AnalyzeIntensity(baseResult),
    AnalyzeTransitions(ca, a, s))

\* ContextualAnalyzer.analyze
ContextualAnalyze(ca, a, v) ==
  IF TooShort(v) THEN EnhancedResult(Analyze(a, v))
  ELSE ContextStages(ca, a, v.str, Analyze(a, v), SegmentText(SplitIntoSentences(v.str)))

----------------------------------------------------------------------------
(* SentimentAnalyzer of src/sentiment-analyzer.js *)

\* the five labels of the earlier analyzer
LegacySentiment(finalScore) ==
  IF JsGe(finalScore, P(70)) THEN "positif"
  ELSE IF JsGe(finalScore, P(55)) THEN "legerement positif"
  ELSE IF ~IsNaN(finalScore) /\ finalScore <= P(30) THEN "negatif"
  ELSE IF ~IsNaN(finalScore) /\ finalScore <= P(45) THEN "legerement negatif"
  ELSE "neutre"

\* one iteration of the earlier analyzer's token loop
LegacyStep(a, words, i, st) ==
  LET word == words[i + 1]
      r == ResolveWord(a, word)
  IN IF ~r.found THEN st
     ELSE
       LET pm == PrefixModifier(a.modifierPrefixes, words, i)
           score == ApplyModifier(r.score, pm.modifier)
       IN [ totalScore |-> JsAdd(st.totalScore, score),
            wordCount |-> st.wordCount + 1,
            confidence |-> st.confidence + P(50),
            words |->
              Append(st.words,
                [word |-> word, originalScore |-> r.score, modifiedScore |-> score]),
            modifiers |-> st.modifiers \o pm.evidence ]

RECURSIVE LegacyScan(_, _, _, _)
LegacyScan(a, words, i, st) ==
  IF i >= Len(words) THEN st
  ELSE LegacyScan(a, words, i + 1, LegacyStep(a, words, i, st))

\* the running state of the earlier analyzer's token loop after the idioms
LegacyStart(idioms) ==
  [ totalScore |-> SumOf([k \in 1..Len(idioms) |-> idioms[k].score]),
    wordCount |-> Len(idioms),
    confidence |-> Len(idioms) * P(80),
    words |-> <<>>,
    modifiers |-> <<>> ]

\* the result the earlier analyzer returns once its token loop has ended
LegacyResult(idioms, st) ==
  LET idiomScoreTotal == SumOf([k \in 1..Len(idioms) |-> idioms[k].score])
      idiomCount == Len(idioms)
      \* idiomWeight = 1.5, in halves to stay in whole numbers
      totalWeightedScore == JsAdd(JsAdd(st.totalScore, st.totalScore),
                                  JsMul(idiomScoreTotal, P(300)))
      totalWeightedCount == 2 * st.wordCount + 3 * idiomCount
      finalScore == IF st.wordCount > 0 \/ idiomCount > 0
                    THEN JsDivInt(totalWeightedScore, totalWeightedCount)
                    ELSE Half
      confidence ==
        IF st.wordCount > 0 \/ idiomCount > 0
        THEN JsMin(Unit,
               RoundDiv((st.confidence + idiomCount * P(80)) * Unit,
                        st.wordCount * P(80) + idiomCount * P(80)))
        ELSE 0
  IN [ score |-> ToFixed2(finalScore),
       sentiment |-> LegacySentiment(finalScore),
       confidence |-> ToFixed2(confidence),
       details |-> [words |-> st.words, modifiers |-> st.modifiers, idioms |-> idioms] ]

\* analyze of src/sentiment-analyzer.js
LegacyAnalyze(a, v) ==
  IF ~Truthy(v) \/ v.type # "string"
  THEN [ score |-> Half, sentiment |-> "neutre", confidence |-> 0,
         details |-> [words |-> <<>>, modifiers |-> <<>>, idioms |-> <<>>] ]
  ELSE LegacyResult(
         SimpleIdioms(a, NormalizeText(v.str)),
         LegacyScan(a, Split(NormalizeText(v.str), <<Blank>>), 0,
                    LegacyStart(SimpleIdioms(a, NormalizeText(v.str)))))

----------------------------------------------------------------------------
(* The program: the module-level instances and the calls made on them *)

\* no call has returned yet
NoResult == <<>>

\* the symbols a text is typed from
Alphabet ==
  { "excellent", "mauvais", "produit", "tres", "pas", "ne", "mais", "constructor",
    Blank, ".", "smiley" }

\* the values other than strings handed to analyze: null or undefined, the
\* numbers 0 and 42, an object
NonStrings == {UndefinedValue, NumberValue(0), NumberValue(42), ObjectValue}

\* longer texts handed to analyze whole
Samples ==
  { <<"ne", Blank, "produit", Blank, "mauvais">>,
    <<"ne", Blank, "produit", Blank, "produit", Blank, "mauvais">>,
    <<"excellent", Blank, "mais", Blank, "mauvais">>,
    <<"mauvais", ".", Blank, "produit", ".", Blank, "produit", ".", Blank, "excellent">>,
    <<"tres", Blank, "excellent", Blank, "produit">>,
    <<"produit", Blank, "pas", Blank, "mal">>,
    <<"Bon", Blank, "produit", "!">>,
    <<"ja", "mais", Blank, "excellent">>,
    <<"pas", Blank, "produit", Blank, "mais", Blank, "pas", Blank, "mauvais">>,
    <<"excellent", Blank, "thumbsup", Blank, "mais", Blank, "terrible", Blank, "crying">>,
    <<"ne", Blank, "produit", Blank, "ne", Blank, "produit", Blank, "mauvais">>,
    <<"ne", Blank, "produit", Blank, "ne", Blank, "produit", Blank, "produit", Blank,
      "produit", Blank, "mauvais">>,
    <<"pas", Blank, "tres", Blank, "mauvais">>,
    <<"ne", Blank, "terrible", Blank, "mauvais", Blank, "produit", Blank, "mauvais">>,
    <<"smiley", Blank, "tres", Blank, "terrible", Blank, "excellent">>,
    <<"terrible", Blank, "tres", Blank, "tres", Blank, "excellent", Blank, "terrible">>,
    <<"ja", "mais", Blank, "excellent", Blank, "mais", Blank, "mauvais">>,
    <<"excellent", Blank, "mais", Blank, "mais", Blank, "mauvais">>,
    <<"smiley", ".", Blank, "thumbsup", Blank, "excellent">> }

\* the texts typed: no blank first or after a blank, a punctuation mark only
\* after a word or an emoji, a word only first or after a separator
CanType(s, c) ==
  LET last == IF s = <<>> THEN Blank ELSE s[Len(s)]
  IN  CASE c = Blank -> IF s = <<>> THEN FALSE ELSE last # Blank
        [] c \in Punctuation ->
             IF s = <<>> THEN FALSE
             ELSE IF IsWordSymbol(last) THEN TRUE ELSE last \in EmojiSymbols
        [] c \in EmojiSymbols -> TRUE
        [] OTHER -> IF s = <<>> THEN TRUE ELSE ~IsWordSymbol(last)

\* AnalyzerAfter for an analyze that remembers the first token of each text
\* as a neutral word
AnalyzerRemembering(a, v) ==
  IF v.type = "string" /\ v.str # <<>>
  THEN [a EXCEPT !.neutralWords = (<<LowerSymbol(Head(v.str))>> :> Half) @@ @]
  ELSE a

\* analyze assigns no field of the analyzer it is called on: its fields after
\* the call
AnalyzerAfter(a, v) == a

\* the instances are constructed once, from the loaded dictionary or from
\* emptyDict when loading fails
Constructed(dictionary) ==
  /\ sentimentDictionary = dictionary
  /\ analyzer = NewSentimentAnalyzer(dictionary)
  /\ contextualAnalyzer = NewContextualAnalyzer(dictionary)
  /\ legacyAnalyzer = NewLegacyAnalyzer(dictionary)

Init ==
  /\ \E dictionary \in Dictionaries : Constructed(dictionary)
  /\ text = StringValue(<<>>)
  /\ call = "none"
  /\ basicAnalysis = NoResult
  /\ contextualAnalysis = NoResult
  /\ legacyAnalysis = NoResult
  /\ calls = <<>>
  /\ arg = 0
  /\ out = NoResult

\* the caller's next text replaces the results of the calls on the last one
NewText(v) ==
  /\ text' = v
  /\ call' = "none"
  /\ basicAnalysis' = NoResult
  /\ contextualAnalysis' = NoResult
  /\ legacyAnalysis' = NoResult
  /\ UNCHANGED <<sentimentDictionary, analyzer, contextualAnalyzer, legacyAnalyzer,
                 calls, arg, out>>

\* the caller extends the text by one symbol
Type(c) ==
  /\ text.type = "string"
  /\ Len(text.str) < MaxLen
  /\ CanType(text.str, c)
  /\ NewText(StringValue(Append(text.str, c)))

\* the caller prepares a value that is no string
PassValue(v) ==
  /\ text = StringValue(<<>>)
  /\ NewText(v)

\* the caller prepares one of the longer texts
Paste(s) ==
  /\ text = StringValue(<<>>)
  /\ NewText(StringValue(s))

\* the caller starts over with the empty text
Clear ==
  /\ call # "none"
  /\ NewText(StringValue(<<>>))

\* analyzer.analyze(text)
CallAnalyze ==
  /\ call = "none"
  /\ call' = "analyze"
  /\ basicAnalysis' = Analyze(analyzer, text)
  /\ analyzer' = AnalyzerAfter(analyzer, text)
  /\ UNCHANGED <<sentimentDictionary, contextualAnalyzer, legacyAnalyzer, text,
                 contextualAnalysis, legacyAnalysis, calls, arg, out>>

\* contextualAnalyzer.analyze(text), which calls the base analyzer
CallContextualAnalyze ==
  /\ call = "none"
  /\ call' = "contextual"
  /\ contextualAnalysis' = ContextualAnalyze(contextualAnalyzer, analyzer, text)
  /\ analyzer' = AnalyzerAfter(analyzer, text)
  /\ UNCHANGED <<sentimentDictionary, contextualAnalyzer, legacyAnalyzer, text,
                 basicAnalysis, legacyAnalysis, calls, arg, out>>

\* analyze of src/sentiment-analyzer.js on the text
CallLegacyAnalyze ==
  /\ call = "none"
  /\ call' = "legacy"
  /\ legacyAnalysis' = LegacyAnalyze(legacyAnalyzer, text)
  /\ UNCHANGED <<sentimentDictionary, analyzer, contextualAnalyzer, legacyAnalyzer,
                 text, basicAnalysis, contextualAnalysis, calls, arg, out>>

Next ==
  \/ \E c \in Alphabet : Type(c)
  \/ \E v \in NonStrings : PassValue(v)
  \/ \E s \in Samples : Paste(s)
  \/ Clear
  \/ CallAnalyze
  \/ CallContextualAnalyze
  \/ CallLegacyAnalyze

Spec == Init /\ [][Next]_vars

----------------------------------------------------------------------------
(* Sequences of calls on the two analyzers of src/src/analyzer.js *)

\* the values the calls of a sequence are made on
CallValues ==
  { StringValue(<<"excellent">>),
    StringValue(<<"pas", Blank, "mauvais">>),
    StringValue(<<"mauvais", ".", "tres", Blank, "excellent">>),
    StringValue(<<"constructor">>),
    NumberValue(42) }

\* analyzer.analyze(v) as the next call of the sequence
AnalyzeInTurn(v) ==
  /\ Len(calls) < MaxCalls
  /\ calls' = Append(calls, v)
  /\ text' = v
  /\ call' = "analyze"
  /\ basicAnalysis' = Analyze(analyzer, v)
  /\ contextualAnalysis' = NoResult
  /\ analyzer' = AnalyzerAfter(analyzer, v)
  /\ UNCHANGED <<sentimentDictionary, contextualAnalyzer, legacyAnalyzer,
                 legacyAnalysis, arg, out>>

\* contextualAnalyzer.analyze(v) as the next call of the sequence
ContextualAnalyzeInTurn(v) ==
  /\ Len(calls) < MaxCalls
  /\ calls' = Append(calls, v)
  /\ text' = v
  /\ call' = "contextual"
  /\ basicAnalysis' = NoResult
  /\ contextualAnalysis' = ContextualAnalyze(contextualAnalyzer, analyzer, v)
  /\ analyzer' = AnalyzerAfter(analyzer, v)
  /\ UNCHANGED <<sentimentDictionary, contextualAnalyzer, legacyAnalyzer,
                 legacyAnalysis, arg, out>>

NextCalls ==
  \/ \E v \in CallValues : AnalyzeInTurn(v)
  \/ \E v \in CallValues : ContextualAnalyzeInTurn(v)

SpecCalls == Init /\ [][NextCalls]_vars

----------------------------------------------------------------------------
(* The functions of a number, applied on their own *)

\* every score from 0 to 1, and NaN
Scores == (0..Unit) \cup {NaN}

\* every progression _analyzeProgression can report: the hundredths from
\* -1 to 1, and NaN
Progressions == {P(c) : c \in (0 - 100)..100} \cup {NaN}

InitFunction(args) ==
  /\ Constructed(ReadmeDictionary)
  /\ text = StringValue(<<>>)
  /\ call = "none"
  /\ basicAnalysis = NoResult
  /\ contextualAnalysis = NoResult
  /\ legacyAnalysis = NoResult
  /\ calls = <<>>
  /\ arg \in args
  /\ out = NoResult

\* the function's value is taken, once
Apply(by, value) ==
  /\ out = NoResult
  /\ out' = [by |-> by, value |-> value]
  /\ UNCHANGED <<sentimentDictionary, analyzer, contextualAnalyzer, legacyAnalyzer,
                 text, call, basicAnalysis, contextualAnalysis, legacyAnalysis,
                 calls, arg>>

\* analyzer._getSentimentFromScore(arg)
LabelScore == Apply("analyzer", GetSentimentFromScore(arg))

\* contextualAnalyzer._getSentimentFromScore(arg)
LabelContextualScore == Apply("contextualAnalyzer", ContextualGetSentimentFromScore(arg))

NextLabel == LabelScore \/ LabelContextualScore

SpecLabel == InitFunction(Scores) /\ [][NextLabel]_vars

\* contextualAnalyzer._identifyNarrativePattern({progression: arg})
IdentifyPattern ==
  Apply("contextualAnalyzer",
        IdentifyNarrativePattern(contextualAnalyzer, [progression |-> arg]))

NextNarrative == IdentifyPattern

SpecNarrative == InitFunction(Progressions) /\ [][NextNarrative]_vars

----------------------------------------------------------------------------
(* The segmentation of a list of sentences, applied on its own *)

\* the sentences _splitIntoSentences hands over: trimmed and not empty
SentenceTexts == {<<"excellent">>, <<"tres", Blank, "mauvais">>}

\* the lists of at most MaxSentences sentences
SentenceLists == UNION {[1..n -> SentenceTexts] : n \in 0..MaxSentences}

\* contextualAnalyzer._segmentText(arg)
Segment == Apply("contextualAnalyzer", SegmentText(arg))

NextSegments == Segment

SpecSegments == InitFunction(SentenceLists) /\ [][NextSegments]_vars

----------------------------------------------------------------------------
(* analyze on a lexicon with idiom patterns *)

\* the symbols a text is typed from
IdiomAlphabet == {"pas", "mal", "est", "je", "fais", "se", "plaindre", "produit", Blank}

\* longer texts handed to analyze whole
IdiomSamples ==
  { <<"je", Blank, "fais", Blank, "mal">>,
    <<"je", Blank, "suis", Blank, "pas", Blank, "mal">>,
    <<"est", Blank, "produit", Blank, "produit", Blank, "mal">>,
    <<"produit", ".", Blank, "se", Blank, "plaindre">> }

InitIdioms ==
  /\ Constructed(PatternDictionary)
  /\ text = StringValue(<<>>)
  /\ call = "none"
  /\ basicAnalysis = NoResult
  /\ contextualAnalysis = NoResult
  /\ legacyAnalysis = NoResult
  /\ calls = <<>>
  /\ arg = 0
  /\ out = NoResult

NextIdioms ==
  \/ \E c \in IdiomAlphabet : Type(c)
  \/ \E s \in IdiomSamples : Paste(s)
  \/ Clear
  \/ CallAnalyze

SpecIdioms == InitIdioms /\ [][NextIdioms]_vars

----------------------------------------------------------------------------
(* Properties *)

\* a number of the interval [0, 1]
InUnitInterval(x) == ~IsNaN(x) /\ 0 <= x /\ x <= Unit

\* the tokens analyze scans for a text
Tokens(v) == Split(NormalizeText(v.str), <<Blank>>)

\* the positions (1-based) of the tokens the lexical scorer scores, in order:
\* the tokens that are no negation word and that resolve
ScoredPositions(a, words) ==
  SelectSeq([i \in 1..Len(words) |-> i],
            LAMBDA i : ~InArray(words[i], a.negationWords)
                       /\ ResolveWord(a, words[i]).found)

\* the positions of the tokens the earlier analyzer scores, in order
LegacyScoredPositions(a, words) ==
  SelectSeq([i \in 1..Len(words) |-> i], LAMBDA i : ResolveWord(a, words[i]).found)

\* the position of the last negation word before position i, 0 when none
LastNegation(a, words, i) ==
  LET before == {j \in 1..(i - 1) : InArray(words[j], a.negationWords)}
  IN IF before = {} THEN 0 ELSE CHOOSE j \in before : \A h \in before : h <= j

\* the number of tokens from the last negation word to position i
DistanceAt(a, words, i) == i - LastNegation(a, words, i)

\* position i lies in the scope of a negation word
InNegationScope(a, words, i) ==
  /\ LastNegation(a, words, i) > 0
  /\ DistanceAt(a, words, i) <= a.config.negationWindow

\* the factor of the prefix modifier of the token at position i (1 if none)
ModifierAt(a, words, i) == PrefixModifier(a.modifierPrefixes, words, i - 1).modifier

\* C1: for every text and every lexicon with polarity values in [0, 1], the
\* lexical scorer's score and confidence and the structural analyzer's
\* baseScore, contextualScore and confidence lie in [0, 1]; so do the score
\* and confidence of the earlier analyzer.
C1_ScoresInUnitInterval ==
  /\ call = "analyze" =>
        /\ InUnitInterval(basicAnalysis.score)
        /\ InUnitInterval(basicAnalysis.confidence)
  /\ call = "contextual" =>
        /\ InUnitInterval(contextualAnalysis.baseScore)
        /\ InUnitInterval(contextualAnalysis.contextualScore)
        /\ InUnitInterval(contextualAnalysis.confidence)
  /\ call = "legacy" =>
        /\ InUnitInterval(legacyAnalysis.score)
        /\ InUnitInterval(legacyAnalysis.confidence)

\* C2: analyze of the lexical scorer, given a value that is no string or the
\* empty string, returns: score 0.5, the neutral label, confidence 0 and
\* four empty evidence lists.
C2_NeutralWithoutText ==
  /\ (call = "none" /\ (text.type # "string" \/ text.str = <<>>)) => ENABLED CallAnalyze
  /\ (call = "analyze" /\ (text.type # "string" \/ text.str = <<>>)) =>
        basicAnalysis =
          [ score |-> Half,
            sentiment |-> "neutre",
            confidence |-> 0,
            details |->
              [words |-> <<>>, modifiers |-> <<>>, idioms |-> <<>>, emojis |-> <<>>] ]

\* analyze of the lexical scorer has returned for the number 42
C2_NumberAnalyzed == call = "analyze" /\ text = NumberValue(42)

\* C3: analyze of the structural analyzer, given a value that is no string
\* or a text of fewer than 10 characters once trimmed, returns the base
\* result with baseScore = contextualScore = score, an empty contextFactors
\* and nothing a stage would add.
C3_ShortTextIsBaseResult ==
  (call = "contextual" /\ (text.type # "string" \/ StrLength(Trim(text.str)) < 10)) =>
    LET base == Analyze(analyzer, text)
    IN /\ DOMAIN contextualAnalysis =
            { "score", "sentiment", "confidence", "details",
              "baseScore", "contextualScore", "contextFactors" }
       /\ contextualAnalysis.score = base.score
       /\ contextualAnalysis.sentiment = base.sentiment
       /\ contextualAnalysis.confidence = base.confidence
       /\ contextualAnalysis.details = base.details
       /\ contextualAnalysis.baseScore = base.score
       /\ contextualAnalysis.contextualScore = base.score
       /\ DOMAIN contextualAnalysis.contextFactors = {}

\* the structural analyzer has returned for "excellent ", 10 characters
\* long and 9 once trimmed
C3_TrimmedToNine ==
  /\ call = "contextual"
  /\ text = StringValue(<<"excellent", Blank>>)
  /\ contextualAnalysis.baseScore # Half

\* C4: whatever calls came before, each analyzer returns for a text what a
\* newly constructed analyzer returns for it, and the fields of the
\* analyzers (lexicon tables and configuration) are as constructed.
C4_ResultsDependOnTextOnly ==
  /\ analyzer = NewSentimentAnalyzer(sentimentDictionary)
  /\ contextualAnalyzer = NewContextualAnalyzer(sentimentDictionary)
  /\ legacyAnalyzer = NewLegacyAnalyzer(sentimentDictionary)
  /\ call = "analyze" =>
        basicAnalysis = Analyze(NewSentimentAnalyzer(sentimentDictionary), text)
  /\ call = "contextual" =>
        contextualAnalysis =
          ContextualAnalyze(NewContextualAnalyzer(sentimentDictionary),
                            NewSentimentAnalyzer(sentimentDictionary), text)

\* a text is analyzed for the second time, after a call on another text
C4_AnalyzedAgain ==
  /\ Len(calls) = 3
  /\ calls[1] = calls[3]
  /\ calls[2] # calls[3]
  /\ calls[3].type = "string"
  /\ call = "contextual"

\* factor.impact as _calculateContextualScore reads it from the result
ReportedImpact(factor) ==
  IF "impact" \in DOMAIN factor
  THEN (IF IsNaN(factor.impact) THEN 0 ELSE factor.impact)
  ELSE 0

\* C5: for a text of at least 10 characters once trimmed, contextualScore
\* is baseScore plus the reported impacts of progression, conclusion,
\* intensity and transitions, each times its weight, plus the reported
\* narrative impact, clamped to [0, 1] (no number when baseScore is none).
C5_ContextualScoreFromImpacts ==
  (call = "contextual" /\ text.type = "string" /\ StrLength(Trim(text.str)) >= 10) =>
    LET factors == contextualAnalysis.contextFactors
        weights == contextualAnalyzer.weights
        sum == contextualAnalysis.baseScore
               + JsMul(ReportedImpact(factors.progression), weights.progression)
               + JsMul(ReportedImpact(factors.conclusion), weights.conclusion)
               + JsMul(ReportedImpact(factors.intensity), weights.intensity)
               + JsMul(ReportedImpact(factors.transitions), weights.transitions)
               + ReportedImpact(factors.narrative)
    IN IF IsNaN(contextualAnalysis.baseScore)
       THEN IsNaN(contextualAnalysis.contextualScore)
       ELSE contextualAnalysis.contextualScore =
              (IF sum < 0 THEN 0 ELSE IF sum > Unit THEN Unit ELSE sum)

\* the structural analyzer has returned a score that the impacts moved and
\* the clamp left alone
C5_ImpactsMovedScore ==
  /\ call = "contextual"
  /\ "contextualSentiment" \in DOMAIN contextualAnalysis
  /\ contextualAnalysis.contextFactors.progression.impact # 0
  /\ contextualAnalysis.contextFactors.transitions.impact # 0
  /\ contextualAnalysis.contextualScore # contextualAnalysis.baseScore
  /\ contextualAnalysis.contextualScore > 0
  /\ contextualAnalysis.contextualScore < Unit

\* C6: the pattern is "redemption" iff progression > 0.25, "downfall" iff
\* progression < -0.25, "consistency" iff |progression| < 0.1 and "mixed"
\* otherwise: one of the four for every progression.
C6_NarrativeBands ==
  out # NoResult =>
    LET pattern == out.value.pattern
        up == ~IsNaN(arg) /\ arg > P(25)
        down == ~IsNaN(arg) /\ arg < P(0 - 25)
        flat == ~IsNaN(arg) /\ arg > P(0 - 10) /\ arg < P(10)
    IN /\ pattern \in {"redemption", "downfall", "consistency", "mixed"}
       /\ (pattern = "redemption") <=> up
       /\ (pattern = "downfall") <=> down
       /\ (pattern = "consistency") <=> flat
       /\ (pattern = "mixed") <=> (~up /\ ~down /\ ~flat)

\* the pattern of a progression of exactly 0.25 has been identified
C6_AtQuarter == out # NoResult /\ arg = P(25) /\ out.value.pattern = "mixed"

\* the score a negative modifier gives a word of lexicon score s
InvertedScore(s) == IF Unit - s = Half THEN P(40) ELSE Unit - s

\* C7: a scored word that lies in no negation scope and whose prefix
\* modifier is negative has modifiedScore 1 - s, s its lexicon score,
\* except that it is 0.4 when 1 - s is 0.5; in both analyzers (the earlier
\* one has no negation scopes).
C7_NegativeModifierInverts ==
  /\ call = "analyze" =>
        LET words == Tokens(text)
            at == ScoredPositions(analyzer, words)
            scored == basicAnalysis.details.words
        IN /\ Len(scored) = Len(at)
           /\ \A k \in 1..Len(scored) :
                (/\ ~IsNaN(scored[k].originalScore)
                 /\ JsLt(ModifierAt(analyzer, words, at[k]), 0)
                 /\ ~InNegationScope(analyzer, words, at[k]))
                => scored[k].modifiedScore = InvertedScore(scored[k].originalScore)
  /\ call = "legacy" =>
        LET words == Tokens(text)
            at == LegacyScoredPositions(legacyAnalyzer, words)
            scored == legacyAnalysis.details.words
        IN /\ Len(scored) = Len(at)
           /\ \A k \in 1..Len(scored) :
                (/\ ~IsNaN(scored[k].originalScore)
                 /\ JsLt(ModifierAt(legacyAnalyzer, words, at[k]), 0))
                => scored[k].modifiedScore = InvertedScore(scored[k].originalScore)

\* the lexical scorer has inverted a neutral word outside any negation scope
C7_NeutralWordInverted ==
  /\ call = "analyze"
  /\ \E k \in 1..Len(basicAnalysis.details.words) :
       /\ ~basicAnalysis.details.words[k].negated
       /\ basicAnalysis.details.words[k].originalScore = Half
       /\ basicAnalysis.details.words[k].modifiedScore = P(40)

\* C8: the negation power 1 - d/negationWindow decreases strictly as the
\* distance d grows from 1 to negationWindow, where it is 0; a scored token
\* at distance d in a negation scope (with no prefix modifier, so that
\* modifiedScore is the negated score) has the score
\* 0.5 + (0.5 - s)(1 - d/negationWindow), which is 0.5 at d = negationWindow.
C8_NegationFadesWithDistance ==
  LET window == analyzer.config.negationWindow
  IN /\ \A d \in 1..(window - 1) :
          NegationPower(d + 1, window) < NegationPower(d, window)
     /\ NegationPower(window, window) = 0
     /\ call = "analyze" =>
          LET words == Tokens(text)
              at == ScoredPositions(analyzer, words)
              scored == basicAnalysis.details.words
          IN \A k \in 1..Len(scored) :
               (/\ InNegationScope(analyzer, words, at[k])
                /\ ~IsNaN(scored[k].originalScore)
                /\ ModifierAt(analyzer, words, at[k]) = Unit)
               => LET d == DistanceAt(analyzer, words, at[k])
                      s == scored[k].originalScore
                  IN /\ d \in 1..window
                     /\ scored[k].negated
                     /\ scored[k].modifiedScore * window
                          = Half * window + (Half - s) * (window - d)
                     /\ (d = window => scored[k].modifiedScore = Half)

\* a negative word at the very end of a negation scope has been scored 0.5
C8_NegatedAtWindow ==
  /\ call = "analyze"
  /\ \E k \in 1..Len(basicAnalysis.details.words) :
       /\ basicAnalysis.details.words[k].negated
       /\ basicAnalysis.details.words[k].originalScore = P(30)
       /\ basicAnalysis.details.words[k].modifiedScore = Half
       /\ DistanceAt(analyzer, Tokens(text),
                     ScoredPositions(analyzer, Tokens(text))[k])
            = analyzer.config.negationWindow

\* C9: with the analyzers constructed on the empty lexicon, a text the
\* lexical scorer finds neutral (score 0.5) has the contextualScore 0.5.
C9_NeutralOnEmptyLexicon ==
  (/\ sentimentDictionary = emptyDict
   /\ call = "contextual"
   /\ contextualAnalysis.baseScore = Half)
  => contextualAnalysis.contextualScore = Half

\* the nine labels
Labels ==
  { "tres positif", "positif", "plutot positif", "legerement positif", "neutre",
    "legerement negatif", "plutot negatif", "negatif", "tres negatif" }

\* C10 as amended: both analyzers give a score of [0, 1] one of the nine
\* labels, "tres positif" iff score >= 0.85, "tres negatif" iff
\* score < 0.15 and "neutre" iff 0.45 <= score < 0.55.
C10_LabelThresholds ==
  (out # NoResult /\ InUnitInterval(arg)) =>
    /\ out.value \in Labels
    /\ (out.value = "tres positif") <=> (arg >= P(85))
    /\ (out.value = "tres negatif") <=> (arg < P(15))
    /\ (out.value = "neutre") <=> (arg >= P(45) /\ arg < P(55))

\* C10 as stated: ... "tres negatif" iff score <= 0.15 ...
C10_LabelThresholdsAsStated ==
  (out # NoResult /\ InUnitInterval(arg)) =>
    /\ out.value \in Labels
    /\ (out.value = "tres positif") <=> (arg >= P(85))
    /\ (out.value = "tres negatif") <=> (arg <= P(15))
    /\ (out.value = "neutre") <=> (arg >= P(45) /\ arg < P(55))

\* the structural analyzer has labelled the score 0.15
C10_AtFifteenHundredths ==
  out # NoResult /\ out.by = "contextualAnalyzer" /\ arg = P(15) /\ out.value = "negatif"

\* the structural analyzer has run its stages on the text
StagesRan == call = "contextual" /\ "trends" \in DOMAIN contextualAnalysis

\* C11: whenever the structural analyzer reports the pattern "redemption"
\* the trend is "nette amelioration" or "amelioration", and whenever it
\* reports "downfall" the trend is "nette degradation" or "degradation".
C11_PatternAgreesWithTrend ==
  StagesRan =>
    LET pattern == contextualAnalysis.contextFactors.narrative.pattern
        trend == contextualAnalysis.trends.trend
    IN /\ pattern = "redemption" => trend \in {"nette amelioration", "amelioration"}
       /\ pattern = "downfall" => trend \in {"nette degradation", "degradation"}

\* a text has been found to fall from its first sentence to its last
C11_DownfallReported ==
  /\ StagesRan
  /\ contextualAnalysis.contextFactors.narrative.pattern = "downfall"
  /\ contextualAnalysis.trends.trend = "nette degradation"

\* values a lexicon may configure as the baseline weight beside the 0.15 of
\* the README: 0, 1, and none at all (the product is then no number)
BaselineWeights == {0, Unit, NaN}

\* the structural analyzer with another baseline weight and nothing else changed
WithBaseline(ca, weight) == [ca EXCEPT !.weights.baseline = weight]

\* C12: two structural analyzers that differ only in weights.baseline
\* return the same result for every text, contextualScore and
\* contextualSentiment included.
C12_BaselineWeightIsInert ==
  call = "contextual" =>
    \A weight \in BaselineWeights :
      ContextualAnalyze(WithBaseline(contextualAnalyzer, weight), analyzer, text)
        = contextualAnalysis

\* a text has got a contextual score that a weighted base score would change
C12_ScoredWithBase ==
  /\ StagesRan
  /\ contextualAnalyzer.weights.baseline = P(15)
  /\ contextualAnalysis.baseScore = P(90)
  /\ contextualAnalysis.contextualScore > 0
  /\ contextualAnalysis.contextualScore < Unit

\* word is a key of the table (an own key, or one every object inherits)
InTable(table, word) == word \in DOMAIN table \/ word \in ObjectPrototypeKeys

\* the score of the first of the three tables, in the order given, that
\* holds the word
FirstTableScore(first, second, third, word) ==
  IF InTable(first, word) THEN GetProp(first, word)
  ELSE IF InTable(second, word) THEN GetProp(second, word)
  ELSE GetProp(third, word)

\* the words of the last text that are in a table are reported with the
\* score of the first table that holds them, the tables in the order given
ScoredInOrder(first, second, third) ==
  call = "analyze" =>
    LET words == Tokens(text)
        at == ScoredPositions(analyzer, words)
        scored == basicAnalysis.details.words
    IN /\ Len(scored) = Len(at)
       /\ \A k \in 1..Len(scored) :
            /\ scored[k].word = words[at[k]]
            /\ scored[k].originalScore = FirstTableScore(first, second, third, words[at[k]])

\* C13 as amended: the score of a token is taken from the first table that
\* holds it in the order positive, negative, neutral; a token of both the
\* neutral and the negative table takes its negative score.
C13_PositiveNegativeNeutral ==
  ScoredInOrder(analyzer.positiveWords, analyzer.negativeWords, analyzer.neutralWords)

\* C13 as stated: ... in the order positive, neutral, negative; a token of
\* both the neutral and the negative table takes its neutral score.
C13_PositiveNeutralNegative ==
  ScoredInOrder(analyzer.positiveWords, analyzer.neutralWords, analyzer.negativeWords)

\* a word of both the neutral and the negative table has been scored
C13_InTwoTables ==
  /\ call = "analyze"
  /\ \E k \in 1..Len(basicAnalysis.details.words) :
       LET word == basicAnalysis.details.words[k].word
       IN /\ word \in DOMAIN analyzer.neutralWords
          /\ word \in DOMAIN analyzer.negativeWords
          /\ analyzer.neutralWords[word] # analyzer.negativeWords[word]
          /\ basicAnalysis.details.words[k].originalScore = analyzer.negativeWords[word]

\* C14: a scored token that lies in a negation scope and has a prefix
\* modifier gets as modifiedScore the modifier's transform of the
\* negation-blended score: negation first, then the modifier.
C14_NegationBeforeModifier ==
  call = "analyze" =>
    LET words == Tokens(text)
        at == ScoredPositions(analyzer, words)
        scored == basicAnalysis.details.words
        window == analyzer.config.negationWindow
    IN \A k \in 1..Len(scored) :
         (/\ InNegationScope(analyzer, words, at[k])
          /\ ~IsNaN(scored[k].originalScore)
          /\ ModifierAt(analyzer, words, at[k]) # Unit)
         => scored[k].modifiedScore =
              ApplyModifier(
                ApplyNegation(scored[k].originalScore,
                              DistanceAt(analyzer, words, at[k]), window),
                ModifierAt(analyzer, words, at[k]))

\* a negated word with a prefix modifier has been scored, for which the
\* other order would have given another score
C14_OrderMatters ==
  /\ call = "analyze"
  /\ \E k \in 1..Len(basicAnalysis.details.words) :
       LET words == Tokens(text)
           i == ScoredPositions(analyzer, words)[k]
           word == basicAnalysis.details.words[k]
       IN /\ word.negated
          /\ ModifierAt(analyzer, words, i) # Unit
          /\ ~IsNaN(word.originalScore)
          /\ word.modifiedScore #
               ModifyThenNegate(word.originalScore, TRUE,
                                DistanceAt(analyzer, words, i),
                                analyzer.config.negationWindow,
                                ModifierAt(analyzer, words, i))

\* C15: a scored token at position i is recorded as negated iff the last
\* negation token before i is at a position j with i - j <= negationWindow:
\* a negation token met in an open scope puts the distance back to 0, and
\* no earlier negation token counts.
C15_OneScopeAtATime ==
  call = "analyze" =>
    LET words == Tokens(text)
        at == ScoredPositions(analyzer, words)
        scored == basicAnalysis.details.words
    IN /\ Len(scored) = Len(at)
       /\ \A k \in 1..Len(scored) :
            scored[k].negated <=> InNegationScope(analyzer, words, at[k])

\* the negation tokens before position i
NegationsBefore(a, words, i) ==
  {j \in 1..(i - 1) : InArray(words[j], a.negationWords)}

\* a word has been recorded as negated that is within the window of the
\* second negation token, met in the scope of the first, and beyond the
\* window of the first
C15_ScopeOpenedAnew ==
  /\ call = "analyze"
  /\ \E k \in 1..Len(basicAnalysis.details.words) :
       LET words == Tokens(text)
           i == ScoredPositions(analyzer, words)[k]
           window == analyzer.config.negationWindow
       IN /\ basicAnalysis.details.words[k].negated
          /\ i - LastNegation(analyzer, words, i) = window
          /\ \E j \in NegationsBefore(analyzer, words, i) :
               /\ j < LastNegation(analyzer, words, i)
               /\ LastNegation(analyzer, words, i) - j <= window

\* the negation markers among the modifier evidence, in order
NegationMarkers(modifiers) ==
  SelectSeq(modifiers, LAMBDA m : "scope" \in DOMAIN m)

\* the negation markers expected for the tokens 1..i: a "starts" for each
\* negation token, an "ends" at the token negationWindow + 1 after the last
\* negation token, naming the token negationWindow before it
RECURSIVE ExpectedMarkers(_, _, _)
ExpectedMarkers(a, words, i) ==
  IF i = 0 THEN <<>>
  ELSE ExpectedMarkers(a, words, i - 1) \o
       (IF InArray(words[i], a.negationWords)
        THEN <<[phrase |-> words[i], type |-> "negation", scope |-> "starts"]>>
        ELSE IF /\ LastNegation(a, words, i) > 0
                /\ DistanceAt(a, words, i) = a.config.negationWindow + 1
        THEN <<[ phrase |-> words[i - a.config.negationWindow],
                 type |-> "negation", scope |-> "ends" ]>>
        ELSE <<>>)

\* the number of markers of a scope among the first n
CountScope(markers, n, scope) ==
  Cardinality({k \in 1..n : markers[k].scope = scope})

\* C16: an "ends" marker is emitted exactly at the token where the distance
\* first exceeds negationWindow, once per scope, naming the token
\* negationWindow positions before that token; a scope opened anew by a
\* negation token or cut by the end of the text emits none. Every "ends"
\* marker follows a "starts" marker that no earlier "ends" matches, so
\* "ends" markers never outnumber "starts" markers.
C16_EndsMarkers ==
  call = "analyze" =>
    LET words == Tokens(text)
        markers == NegationMarkers(basicAnalysis.details.modifiers)
    IN /\ markers = ExpectedMarkers(analyzer, words, Len(words))
       /\ \A n \in 1..Len(markers) :
            /\ CountScope(markers, n, "ends") <= CountScope(markers, n, "starts")
            /\ markers[n].scope = "ends" => (n > 1 /\ markers[n - 1].scope = "starts")

\* a text has been analyzed in which a scope was opened anew by a second
\* negation token and closed later: starts, starts, ends
C16_ClosedAfterOpenedAnew ==
  /\ call = "analyze"
  /\ Len(NegationMarkers(basicAnalysis.details.modifiers)) = 3
  /\ NegationMarkers(basicAnalysis.details.modifiers)[2].scope = "starts"
  /\ NegationMarkers(basicAnalysis.details.modifiers)[3].scope = "ends"
  /\ Len(basicAnalysis.details.words) > 3

\* the two-token phrase that ends just before position i
TwoTokenPhrase(words, i) == words[i - 2] \o <<Blank>> \o words[i - 1]

\* the token before position i is a prefix
OneTokenPrefix(table, words, i) == i > 1 /\ InTable(table, words[i - 1])

\* the two tokens before position i are a prefix together
TwoTokenPrefix(table, words, i) == i > 2 /\ InTable(table, TwoTokenPhrase(words, i))

\* the prefix evidence expected for the scored positions at[1..k]: for
\* each, the one-token entry and then the two-token entry
RECURSIVE ExpectedPrefixes(_, _, _, _)
ExpectedPrefixes(table, words, at, k) ==
  IF k = 0 THEN <<>>
  ELSE ExpectedPrefixes(table, words, at, k - 1)
       \o (IF OneTokenPrefix(table, words, at[k])
           THEN <<[ phrase |-> words[at[k] - 1], target |-> words[at[k]],
                    modification |-> GetProp(table, words[at[k] - 1]) ]>>
           ELSE <<>>)
       \o (IF TwoTokenPrefix(table, words, at[k])
           THEN <<[ phrase |-> TwoTokenPhrase(words, at[k]), target |-> words[at[k]],
                    modification |-> GetProp(table, TwoTokenPhrase(words, at[k])) ]>>
           ELSE <<>>)

\* the prefix entries among the modifier evidence, in order
PrefixEvidence(modifiers) == SelectSeq(modifiers, LAMBDA m : "target" \in DOMAIN m)

\* C17: when the token before a scored word and the two-token phrase
\* before it are both prefixes, the factor applied to the word is the one
\* of the two-token phrase, and both are recorded as modifier evidence, the
\* one-token entry first; in both analyzers.
C17_TwoTokenPrefixWins ==
  /\ call = "analyze" =>
       LET words == Tokens(text)
           at == ScoredPositions(analyzer, words)
           scored == basicAnalysis.details.words
           table == analyzer.modifierPrefixes
       IN /\ PrefixEvidence(basicAnalysis.details.modifiers)
               = ExpectedPrefixes(table, words, at, Len(at))
          /\ \A k \in 1..Len(scored) :
               (OneTokenPrefix(table, words, at[k]) /\ TwoTokenPrefix(table, words, at[k]))
               => scored[k].modifiedScore =
                    NegateThenModify(scored[k].originalScore, scored[k].negated,
                                     DistanceAt(analyzer, words, at[k]),
                                     analyzer.config.negationWindow,
                                     GetProp(table, TwoTokenPhrase(words, at[k])))
  /\ call = "legacy" =>
       LET words == Tokens(text)
           at == LegacyScoredPositions(legacyAnalyzer, words)
           scored == legacyAnalysis.details.words
           table == legacyAnalyzer.modifierPrefixes
       IN /\ legacyAnalysis.details.modifiers
               = ExpectedPrefixes(table, words, at, Len(at))
          /\ \A k \in 1..Len(scored) :
               (OneTokenPrefix(table, words, at[k]) /\ TwoTokenPrefix(table, words, at[k]))
               => scored[k].modifiedScore =
                    ApplyModifier(scored[k].originalScore,
                                  GetProp(table, TwoTokenPhrase(words, at[k])))

\* a word after "pas tres" has been scored by the lexical scorer, "tres"
\* and "pas tres" both prefixes with different factors
C17_BothPrefixesMatched ==
  /\ call = "analyze"
  /\ Len(PrefixEvidence(basicAnalysis.details.modifiers)) = 2
  /\ PrefixEvidence(basicAnalysis.details.modifiers)[1].phrase = <<"tres">>
  /\ PrefixEvidence(basicAnalysis.details.modifiers)[2].phrase = <<"pas", Blank, "tres">>
  /\ PrefixEvidence(basicAnalysis.details.modifiers)[1].modification
       # PrefixEvidence(basicAnalysis.details.modifiers)[2].modification

\* the positions within the context window of position i, i itself left out
ContextPositions(a, words, i) ==
  {p \in 1..Len(words) : p # i /\ p - i <= a.config.contextWindow
                               /\ i - p <= a.config.contextWindow}

\* the context positions whose token is in a table
ResolvedContext(a, words, i) ==
  { p \in ContextPositions(a, words, i) :
      \/ InTable(a.positiveWords, words[p])
      \/ InTable(a.negativeWords, words[p])
      \/ InTable(a.neutralWords, words[p]) }

\* the lean of the token at position p: its lexicon score less 0.5
LeanAt(a, words, p) ==
  JsSub(FirstTableScore(a.positiveWords, a.negativeWords, a.neutralWords, words[p]), Half)

\* the sum of the leans of a set of positions
RECURSIVE SumOfLeans(_, _, _)
SumOfLeans(a, words, positions) ==
  IF positions = {} THEN 0
  ELSE LET p == CHOOSE q \in positions : TRUE
       IN JsAdd(LeanAt(a, words, p), SumOfLeans(a, words, positions \ {p}))

\* C18: the context never moves a word across 0.5. When the pull of the
\* context has the sign opposite to the word's lean, contextScore stays
\* between modifiedScore and 0.5; when the signs agree, it moves away from
\* 0.5 and stays in [0, 1]; when no context token is in a table, or the
\* word or the pull has no lean, contextScore is modifiedScore.
C18_ContextKeepsSide ==
  call = "analyze" =>
    LET words == Tokens(text)
        at == ScoredPositions(analyzer, words)
        scored == basicAnalysis.details.words
    IN \A k \in 1..Len(scored) :
         LET m == scored[k].modifiedScore
             c == scored[k].contextScore
             resolved == ResolvedContext(analyzer, words, at[k])
             pull == SumOfLeans(analyzer, words, resolved)
         IN /\ resolved = {} => c = m
            /\ (~IsNaN(m) /\ ~IsNaN(pull)) =>
                 /\ (m > Half /\ pull < 0) => (Half <= c /\ c <= m)
                 /\ (m < Half /\ pull > 0) => (m <= c /\ c <= Half)
                 /\ (m > Half /\ pull > 0) => (m <= c /\ c <= Unit /\ (m < Unit => m < c))
                 /\ (m < Half /\ pull < 0) => (0 <= c /\ c <= m /\ (m > 0 => c < m))
                 /\ (m = Half \/ pull = 0) => c = m

\* a word leaning just above 0.5 has been scored in a context so negative
\* that half its pull (the move is three tenths of it) would have carried
\* the word below 0.5
C18_PulledTowardsHalf ==
  /\ call = "analyze"
  /\ \E k \in 1..Len(basicAnalysis.details.words) :
       LET word == basicAnalysis.details.words[k]
       IN /\ ~IsNaN(word.modifiedScore)
          /\ word.modifiedScore > Half
          /\ word.contextScore < word.modifiedScore
          /\ word.contextScore >= Half
          /\ 3 * (word.modifiedScore - Half) < 5 * (word.modifiedScore - word.contextScore)

\* the scores of the evidence items of a result: of each idiom, of each
\* emoji, and the contextScore of each word
EvidenceScores(details) ==
  [k \in 1..Len(details.idioms) |-> details.idioms[k].score]
  \o [k \in 1..Len(details.emojis) |-> details.emojis[k].score]
  \o [k \in 1..Len(details.words) |-> details.words[k].contextScore]

\* the sum of a list of scores, no number if one of them is none
RECURSIVE SumOfScores(_)
SumOfScores(scores) ==
  IF scores = <<>> THEN 0 ELSE JsAdd(Head(scores), SumOfScores(Tail(scores)))

\* the sum of the category weights of the evidence: 0.8 an idiom, 0.7 an
\* emoji, 0.5 a word
EvidenceWeight(details) ==
  Len(details.idioms) * P(80) + Len(details.emojis) * P(70) + Len(details.words) * P(50)

\* x is a number of hundredths nearest to the quotient num / den (den > 0)
NearestHundredth(x, num, den) ==
  /\ x % Cent = 0
  /\ 2 * (x * den - num) <= Cent * den
  /\ 2 * (num - x * den) <= Cent * den

\* C19: the score of the lexical scorer is the mean, rounded to 2
\* decimals, of the scores of all evidence items, each counted once; the
\* confidence is min(1, sum of the category weights / (0.8 * number of
\* items)), rounded to 2 decimals; with no evidence they are 0.5 and 0.
C19_ScoreIsPlainMean ==
  (call = "analyze" /\ text.type = "string" /\ text.str # <<>>) =>
    LET scores == EvidenceScores(basicAnalysis.details)
        count == Len(scores)
        total == SumOfScores(scores)
        weight == EvidenceWeight(basicAnalysis.details)
    IN IF count = 0
       THEN basicAnalysis.score = Half /\ basicAnalysis.confidence = 0
       ELSE /\ IF IsNaN(total) THEN IsNaN(basicAnalysis.score)
               ELSE NearestHundredth(basicAnalysis.score, total, count)
            /\ IF weight >= P(80) * count
               THEN basicAnalysis.confidence = Unit
               ELSE NearestHundredth(basicAnalysis.confidence, weight * Unit,
                                     P(80) * count)

\* a text with an idiom and a word of another score has been scored
C19_IdiomAndWord ==
  /\ call = "analyze"
  /\ Len(basicAnalysis.details.idioms) = 1
  /\ Len(basicAnalysis.details.words) = 1
  /\ basicAnalysis.details.idioms[1].score # basicAnalysis.details.words[1].contextScore
  /\ basicAnalysis.confidence < Unit

\* the tokens of a phrase
PhraseTokens(phrase) == Split(phrase, <<Blank>>)

\* the positions of the tokens that lie in an occurrence of the phrase
\* among the tokens
SpanPositions(words, phrase) ==
  LET tokens == PhraseTokens(phrase)
      n == Len(tokens)
      starts == {p \in 1..(Len(words) - n + 1) : SubSeq(words, p, p + n - 1) = tokens}
  IN {i \in 1..Len(words) : \E p \in starts : p <= i /\ i < p + n}

\* C20: the tokens that lie in an occurrence of a detected idiom produce
\* no word evidence.
C20_IdiomSpanUnscored ==
  call = "analyze" =>
    LET words == Tokens(text)
        at == ScoredPositions(analyzer, words)
    IN \A d \in 1..Len(basicAnalysis.details.idioms) :
         \A k \in 1..Len(at) :
           at[k] \notin SpanPositions(words, basicAnalysis.details.idioms[d].phrase)

\* C21: in the pattern-aware detection an idiom whose first word is none of
\* the common verbs is registered at a token position only where every word
\* of the phrase equals the token at that position and the following ones;
\* a phrase that runs past the last token is not registered.
C21_DirectIdiomMatchesWhole ==
  call = "analyze" =>
    \A d \in 1..Len(basicAnalysis.details.idioms) :
      LET idiom == basicAnalysis.details.idioms[d]
          phraseWords == Split(idiom.phrase, <<Blank>>)
      IN Head(phraseWords) \notin CommonVerbs =>
           \A j \in 1..Len(phraseWords) :
             /\ idiom.position.start + j <= Len(Tokens(text))
             /\ Tokens(text)[idiom.position.start + j] = phraseWords[j]

\* the sentences from the first to the last index, joined by blanks
Joined(sentences, first, last) == JoinWith(SubSeq(sentences, first, last), <<Blank>>)

\* the segments cut after the first q and before the last q sentences
CutInQuarters(sentences, q) ==
  <<[type |-> "beginning", content |-> Joined(sentences, 1, q)]>>
  \o (IF Len(sentences) > 2 * q
      THEN <<[type |-> "middle", content |-> Joined(sentences, q + 1, Len(sentences) - q)]>>
      ELSE <<>>)
  \o <<[ type |-> "end",
         content |-> Joined(sentences, Len(sentences) - q + 1, Len(sentences)) ]>>

\* C22 as stated: of n >= 2 sentences the beginning holds the first and the
\* end the last ceiling(0.25 n), the remaining ones (if any) are the middle.
C22_CeilingQuarter ==
  (out # NoResult /\ Len(arg) >= 2) =>
    out.value = CutInQuarters(arg, (Len(arg) + 3) \div 4)

\* C22: of n >= 2 sentences the beginning holds the first and the end the
\* last max(1, floor(0.25 n)): one sentence below eight sentences, the
\* whole quarters from eight on; the remaining ones are the middle.
C22_FloorQuarter ==
  (out # NoResult /\ Len(arg) >= 2) =>
    out.value = CutInQuarters(arg, IF Len(arg) < 8 THEN 1 ELSE Len(arg) \div 4)

\* five sentences are cut into one, three and one
C22_FiveSentences ==
  /\ out # NoResult
  /\ Len(arg) = 5
  /\ Len(out.value) = 3
  /\ out.value[1].content = arg[1]
  /\ out.value[3].content = arg[5]

\* C23: the segments of n >= 2 sentences are a beginning, a middle when there
\* is one, and an end, cut at two points of the list: every sentence lies in
\* exactly one segment, in the order of the text, the beginning and the end
\* hold a sentence at least, and there is a middle iff n >= 3.
C23_SegmentsPartition ==
  (out # NoResult /\ Len(arg) >= 2) =>
    /\ \E b \in 1..(Len(arg) - 1) : \E e \in b..(Len(arg) - 1) :
         out.value =
           <<[type |-> "beginning", content |-> Joined(arg, 1, b)]>>
           \o (IF e > b
               THEN <<[type |-> "middle", content |-> Joined(arg, b + 1, e)]>>
               ELSE <<>>)
           \o <<[type |-> "end", content |-> Joined(arg, e + 1, Len(arg))]>>
    /\ (Len(out.value) = 3) <=> (Len(arg) >= 3)

\* three sentences are cut into three segments of one sentence
C23_ThreeSentences ==
  /\ out # NoResult
  /\ Len(arg) = 3
  /\ [k \in 1..Len(out.value) |-> out.value[k].type] = <<"beginning", "middle", "end">>
  /\ [k \in 1..Len(out.value) |-> out.value[k].content] = arg

\* the text holds ten characters at least between its ends and is one
\* sentence
OneSentenceText ==
  /\ ~TooShort(text)
  /\ Len(SplitIntoSentences(text.str)) = 1

NearNeutral == JsGe(contextualAnalysis.baseScore, P(40)) /\ ~JsGt(contextualAnalysis.baseScore, P(60))

\* C25 as stated: with two scored words at least and a base score from 0.4
\* to 0.6 the intensity's impact is >= 0 above 0.5 and <= 0 below; with
\* fewer than two scored words the intensity and its impact are 0.
C25_IntensityPushesAway ==
  StagesRan =>
    IF Len(contextualAnalysis.details.words) < 2
    THEN contextualAnalysis.contextFactors.intensity = [intensity |-> 0, impact |-> 0]
    ELSE NearNeutral =>
           /\ contextualAnalysis.baseScore > Half =>
                contextualAnalysis.contextFactors.intensity.impact >= 0
           /\ contextualAnalysis.baseScore < Half =>
                contextualAnalysis.contextFactors.intensity.impact <= 0

\* C25: with two scored words at least and a base score from 0.4 to 0.6 the
\* intensity's impact pulls towards 0.5: it is <= 0 above 0.5 and >= 0 below;
\* with fewer than two scored words the intensity and its impact are 0.
C25_IntensityPullsToHalf ==
  StagesRan =>
    IF Len(contextualAnalysis.details.words) < 2
    THEN contextualAnalysis.contextFactors.intensity = [intensity |-> 0, impact |-> 0]
    ELSE NearNeutral =>
           /\ contextualAnalysis.baseScore > Half =>
                contextualAnalysis.contextFactors.intensity.impact <= 0
           /\ contextualAnalysis.baseScore < Half =>
                contextualAnalysis.contextFactors.intensity.impact >= 0

\* a base score above 0.5 in the band with an impact below 0
C25_PulledDown ==
  /\ StagesRan
  /\ Len(contextualAnalysis.details.words) >= 2
  /\ NearNeutral
  /\ contextualAnalysis.baseScore > Half
  /\ contextualAnalysis.contextFactors.intensity.impact < 0

\* a base score below 0.5 in the band with an impact above 0
C25_PulledUp ==
  /\ StagesRan
  /\ Len(contextualAnalysis.details.words) >= 2
  /\ NearNeutral
  /\ contextualAnalysis.baseScore < Half
  /\ contextualAnalysis.contextFactors.intensity.impact > 0

\* the position of the first whole-word occurrence of the marker
FirstWholeWord(lowerText, marker) ==
  CHOOSE p \in 1..Len(lowerText) :
    /\ WholeWordAt(lowerText, marker, p)
    /\ \A q \in 1..(p - 1) : ~WholeWordAt(lowerText, marker, q)

\* the text before the first whole-word occurrence of the reported marker
BeforeWholeWord ==
  SubSeq(ToLowerCase(text.str), 1,
         FirstWholeWord(ToLowerCase(text.str),
                        contextualAnalysis.contextFactors.transitions.marker) - 1)

\* C26: the span scored as the text before the transition is the text that
\* precedes the first whole-word occurrence of the strongest marker found;
\* the marker's letters inside a longer word are no split point.
C26_SplitAtWholeWord ==
  (StagesRan /\ "beforeScore" \in DOMAIN contextualAnalysis.contextFactors.transitions) =>
    contextualAnalysis.contextFactors.transitions.beforeScore
      = Analyze(analyzer, StringValue(BeforeWholeWord)).score

\* the text before the first occurrence of the reported marker
BeforeSpan ==
  Head(Split(ToLowerCase(text.str), contextualAnalysis.contextFactors.transitions.marker))
\* the text after the first occurrence of the reported marker, the later
\* occurrences left in
AfterSpan ==
  JoinWith(Tail(Split(ToLowerCase(text.str),
                      contextualAnalysis.contextFactors.transitions.marker)),
           contextualAnalysis.contextFactors.transitions.marker)

\* the impact of a marker of the given weight between two spans
SpanImpact(weight, before, after) ==
  ToFixed2(JsMul(JsMul(JsSub(Analyze(analyzer, StringValue(after)).score,
                             Analyze(analyzer, StringValue(before)).score), weight),
                 JsMin(Unit, 2 * RoundDiv(StrLength(after) * Unit,
                                          StrLength(before) + StrLength(after)))))

\* C27: when a marker is found the impact is the minimal weight x 0.05 iff
\* the span before the marker or the span after its first occurrence is
\* empty once trimmed; otherwise both spans are scored and the impact is
\* shift x weight x min(1, 2 x afterLength / (beforeLength + afterLength)).
C27_MinimalIffSpanEmpty ==
  (StagesRan /\ contextualAnalysis.contextFactors.transitions.found) =>
    IF Trim(BeforeSpan) = <<>> \/ Trim(AfterSpan) = <<>>
    THEN /\ "beforeScore" \notin DOMAIN contextualAnalysis.contextFactors.transitions
         /\ contextualAnalysis.contextFactors.transitions.impact
              = JsMul(StrongestTransition(contextualAnalyzer, ToLowerCase(text.str)).weight, P(5))
    ELSE /\ "beforeScore" \in DOMAIN contextualAnalysis.contextFactors.transitions
         /\ contextualAnalysis.contextFactors.transitions.impact
              = SpanImpact(contextualAnalysis.contextFactors.transitions.weight,
                           BeforeSpan, AfterSpan)

\* C28: in the trend summary of a text of several segments the trend is
\* "stable" iff the description is the sentence saying the sentiment stays
\* stable, for every progression, 0.05 and -0.05 included.
C28_TrendAgreesWithDescription ==
  (StagesRan /\ Len(contextualAnalysis.contextFactors.segments.segments) > 1) =>
    ((contextualAnalysis.trends.trend = "stable")
       <=> (contextualAnalysis.trends.description.opening = "stable"))

\* C29: the sentiment the lexical scorer returns is the label of the score
\* it returns, the score rounded to two decimals.
C29_LabelOfReturnedScore ==
  call = "analyze" => basicAnalysis.sentiment = GetSentimentFromScore(basicAnalysis.score)

\* the token before position i is a negation word and a one-token prefix of
\* negative factor, and no two-token prefix ends there
NegatingPrefixBefore(a, words, i) ==
  IF i <= 1 THEN FALSE
  ELSE /\ InArray(words[i - 1], a.negationWords)
       /\ HasProp(a.modifierPrefixes, words[i - 1])
       /\ JsLt(GetProp(a.modifierPrefixes, words[i - 1]), 0)
       /\ ~TwoTokenPrefix(a.modifierPrefixes, words, i)

\* C30: a lexicon word of score s other than 0.5 that follows a token which
\* is a negation word and a negative prefix (negation window of 2 at least,
\* no two-token prefix) gets the negation blend and the inversion both: its
\* modifiedScore is 0.5 - (0.5 - s) (1 - 1 / negationWindow), on the side of
\* 0.5 where s lies.
C30_NegationAndPrefixCancel ==
  call = "analyze" =>
    LET words == Tokens(text)
        at == ScoredPositions(analyzer, words)
        scored == basicAnalysis.details.words
        window == analyzer.config.negationWindow
    IN \A k \in 1..Len(scored) :
         (/\ NegatingPrefixBefore(analyzer, words, at[k])
          /\ window >= 2
          /\ ~IsNaN(scored[k].originalScore)
          /\ scored[k].originalScore # Half)
         => /\ scored[k].modifiedScore =
                 Half - RoundDiv((Half - scored[k].originalScore)
                                   * (Unit - RoundDiv(Unit, window)), Unit)
            /\ (scored[k].originalScore > Half) <=> (scored[k].modifiedScore > Half)
            /\ (scored[k].originalScore < Half) <=> (scored[k].modifiedScore < Half)

\* "pas mauvais" has been scored with "pas" a negation word and the prefix
\* -1.0: 0.3 has become 0.34
C30_PasMauvais ==
  /\ call = "analyze"
  /\ Tokens(text) = << <<"pas">>, <<"mauvais">> >>
  /\ NegatingPrefixBefore(analyzer, Tokens(text), 2)
  /\ Len(basicAnalysis.details.words) = 1
  /\ basicAnalysis.details.words[1].originalScore = P(30)
  /\ basicAnalysis.details.words[1].modifiedScore = P(34)

====
